---- MODULE Spec2Model ----
(***************************************************************************)
(* A model of the Proxmark3 GUI: the command catalog builder               *)
(* (pm3_command_parser.py), the device wrappers' console call              *)
(* (pm3_subprocess.py, pm3_proxspace.py) and the connection worker and     *)
(* window handlers of CyberNinjaRFID.py.                                   *)
(*                                                                         *)
(* Python strings are sequences of one-character strings, so that          *)
(* splitting, stripping, searching and the regular expressions are         *)
(* computed character by character, as the code computes them.             *)
(***************************************************************************)
EXTENDS Integers, Sequences, FiniteSets, TLC

(***************************************************************************)
(* Characters and the string primitives of Python used by the parser.      *)
(***************************************************************************)
LowerLetters ==
  <<"a","b","c","d","e","f","g","h","i","j","k","l","m",
    "n","o","p","q","r","s","t","u","v","w","x","y","z">>

UpperLetters ==
  <<"A","B","C","D","E","F","G","H","I","J","K","L","M",
    "N","O","P","Q","R","S","T","U","V","W","X","Y","Z">>

Digits == {"0","1","2","3","4","5","6","7","8","9"}

Range(s) == {s[i] : i \in DOMAIN s}

\* The element of a one-element set. {e(x) : x \in {v}} names the value of v
\* as x in e, so that v is computed once however often e uses it.
Only(S) == CHOOSE x \in S : TRUE

\* the least and the greatest of a non-empty set of integers
Min(S) == CHOOSE x \in S : \A y \in S : x <= y

Max(S) == CHOOSE x \in S : \A y \in S : y <= x

Letters == Range(LowerLetters) \cup Range(UpperLetters)

\* str.isalpha() on one character
IsAlpha(c) == c \in Letters

\* the regular expression class \s, and what str.strip() removes
IsSpace(c) == c \in {" ", "\t"}

WordChars == Letters \cup Digits \cup {"_"}

\* the regular expression class \w
IsWord(c) == c \in WordChars

ToLower ==
  [c \in Range(UpperLetters) |->
     LowerLetters[CHOOSE i \in DOMAIN UpperLetters : UpperLetters[i] = c]]

\* str.lower() on one character
LowerChar(c) == IF c \in DOMAIN ToLower THEN ToLower[c] ELSE c

\* str.lower()
Lower(s) == [i \in DOMAIN s |-> LowerChar(s[i])]

\* s[a:b] of Python, 0-based and half-open
Slice(s, a, b) == SubSeq(s, a + 1, b)

\* sub in s
Contains(s, sub) ==
  \E i \in 0..(Len(s) - Len(sub)) : Slice(s, i, i + Len(sub)) = sub

\* s.startswith(p)
StartsWith(s, p) == Len(p) <= Len(s) /\ Slice(s, 0, Len(p)) = p

\* str.strip()
Strip(s) ==
  Only({IF keep = {} THEN <<>> ELSE SubSeq(s, Min(keep), Max(keep)) :
          keep \in {{i \in DOMAIN s : ~IsSpace(s[i])}}})

\* the end (0-based, exclusive) of the run of whitespace that starts at i
SpaceRunEnd(s, i) ==
  Only({Min(stops) :
          stops \in {{j \in i..Len(s) : j = Len(s) \/ ~IsSpace(s[j + 1])}}})

\* text.split('\n'): the newlines cut the text into lines; the k-th line
\* lies between the k-th and the next of the cuts
SplitLines(text) ==
  Only({[k \in 1..(Cardinality(cuts) - 1) |->
           Only({SubSeq(text, c + 1, Min({d \in cuts : d > c}) - 1) :
                   c \in {x \in cuts : Cardinality({d \in cuts : d < x}) = k - 1}})] :
          cuts \in {{0} \cup {i \in DOMAIN text : text[i] = "\n"}
                        \cup {Len(text) + 1}}})

\* '\n'.join(lines)
JoinLines(lines) ==
  IF Len(lines) = 0 THEN <<>>
  ELSE LET RECURSIVE join(_)
           join(i) == IF i = Len(lines) THEN lines[i]
                      ELSE lines[i] \o <<"\n">> \o join(i + 1)
       IN join(1)

(***************************************************************************)
(* The regular expressions of the parser.                                  *)
(***************************************************************************)
\* Where \s+(?:--|-)\s+ matches when tried at 0-based position i: the end of
\* the match, or -1. The greedy \s+ takes the whole run of whitespace, the
\* alternation tries "--" before "-", and the closing \s+ is greedy too.
DashDelimEnd(s, i) ==
  IF i >= Len(s) \/ ~IsSpace(s[i + 1]) THEN -1
  ELSE Only({IF j >= Len(s) \/ s[j + 1] # "-" THEN -1
             ELSE IF j + 2 < Len(s) /\ s[j + 2] = "-" /\ IsSpace(s[j + 3])
                  THEN SpaceRunEnd(s, j + 2)
             ELSE IF j + 1 < Len(s) /\ IsSpace(s[j + 2])
                  THEN SpaceRunEnd(s, j + 1)
             ELSE -1 :
               j \in {SpaceRunEnd(s, i)}})

\* the leftmost position at which \s+(?:--|-)\s+ matches, or -1
FirstDashDelim(s) ==
  Only({IF hits = {} THEN -1 ELSE Min(hits) :
          hits \in {{i \in 0..(Len(s) - 1) : DashDelimEnd(s, i) # -1}}})

\* re.split(r'\s+-\s+', line, 1): the delimiter without its "--" form
DashSplitSingleDashOnly(line) ==
  Only({IF hits = {} THEN <<line>>
        ELSE <<Slice(line, 0, Min(hits)),
               Slice(line, SpaceRunEnd(line, SpaceRunEnd(line, Min(hits)) + 1),
                     Len(line))>> :
          hits \in {{i \in 0..(Len(line) - 1) :
                       /\ IsSpace(line[i + 1])
                       /\ \E j \in {SpaceRunEnd(line, i)} :
                            /\ j + 1 < Len(line)
                            /\ line[j + 1] = "-"
                            /\ IsSpace(line[j + 2])}}})

\* re.split(r'\s+(?:--|-)\s+', line, 1)
DashSplit(line) ==
  Only({IF i = -1 THEN <<line>>
        ELSE <<Slice(line, 0, i), Slice(line, DashDelimEnd(line, i), Len(line))>> :
          i \in {FirstDashDelim(line)}})

S_commands == <<"c","o","m","m","a","n","d","s">>

S_command == <<"c","o","m","m","a","n","d">>

S_category == <<"c","a","t","e","g","o","r","y">>

S_module == <<"m","o","d","u","l","e">>

HeaderKeywords == {S_commands \o <<":">>, S_category \o <<":">>, S_module \o <<":">>}

\* any(keyword in line.lower() for keyword in ['commands:', 'category:', 'module:'])
IsHeader(line) ==
  \E low \in {Lower(line)} : \E kw \in HeaderKeywords : Contains(low, kw)

\* The first position at or after i of a character outside [\w\s], or the
\* length of the line.
ClassRunEnd(line, i) ==
  Only({Min(stops) :
          stops \in {{j \in i..Len(line) :
                        j = Len(line) \/ ~(IsWord(line[j + 1]) \/ IsSpace(line[j + 1]))}}})

\* Where the keyword of ([\w\s]+)\s*commands?: starts when the group starts
\* at i, or -1. The greedy class runs to the first character e outside
\* [\w\s], which has to be the colon; it gives back the keyword, which has
\* to start after i for the group not to be empty, and "command" is tried
\* before "commands" (the longer group).
KeywordStart(line, low, i) ==
  Only({IF e >= Len(line) \/ line[e + 1] # ":" THEN -1
        ELSE IF e - 7 > i /\ Slice(low, e - 7, e) = S_command THEN e - 7
        ELSE IF e - 8 > i /\ Slice(low, e - 8, e) = S_commands THEN e - 8
        ELSE -1 :
          e \in {ClassRunEnd(line, i)}})

\* re.search(r'([\w\s]+)\s*commands?:', line, re.IGNORECASE): group 1 of the
\* leftmost match.
CategoryMatch(line) ==
  Only({IF starts = {} THEN [found |-> FALSE, group |-> <<>>]
        ELSE [found |-> TRUE,
              group |-> Slice(line, Min(starts), KeywordStart(line, low, Min(starts)))] :
          low \in {Lower(line)},
          starts \in {{i \in 0..(Len(line) - 1) :
                         /\ IsWord(line[i + 1]) \/ IsSpace(line[i + 1])
                         /\ KeywordStart(line, Lower(line), i) # -1}}})

\* '--' in line or (len(line) > 3 and line[0].isalpha() and ' - ' in line)
LooksLikeCommand(line) ==
  \/ Contains(line, <<"-","-">>)
  \/ Len(line) > 3 /\ IsAlpha(line[1]) /\ Contains(line, <<" ","-"," ">>)

(***************************************************************************)
(* PM3Command and PM3CommandParser.parse_help_output.                      *)
(***************************************************************************)
\* PM3Command(name, category, description) with the dataclass defaults
PM3Command(name, category, description) ==
  [name |-> name, category |-> category, description |-> description,
   usage |-> <<>>, examples |-> <<>>, subcommands |-> <<>>]

\* d[k] = v on a dict
DictSet(d, k, v) == (k :> v) @@ d

\* The header branch of the loop body: the category becomes group 1 of the
\* match, stripped and lower-cased, and gets an empty list if it is new.
ParseHeader(line, st) ==
  Only({IF m.found
        THEN Only({[cat |-> c, cmds |-> st.cmds,
                    cats |-> IF c \in DOMAIN st.cats THEN st.cats
                             ELSE DictSet(st.cats, c, <<>>)] :
                     c \in {Lower(Strip(m.group))}})
        ELSE st :
          m \in {CategoryMatch(line)}})

\* The command branch of the loop body.
ParseCommand(line, st) ==
  Only({IF Len(parts) = 2
        THEN Only({[cat |-> st.cat,
                    cmds |-> DictSet(st.cmds, cmd_name,
                                     PM3Command(cmd_name, st.cat, description)),
                    cats |-> IF st.cat \in DOMAIN st.cats
                             THEN DictSet(st.cats, st.cat,
                                          Append(st.cats[st.cat], cmd_name))
                             ELSE DictSet(st.cats, st.cat, <<cmd_name>>)] :
                     cmd_name \in {Strip(parts[1])},
                     description \in {Strip(parts[2])}})
        ELSE st :
          parts \in {DashSplit(line)}})

\* the loop body with a last branch that empties the local commands dict
ParseLineForgettingOnSkip(raw, st) ==
  Only({IF IsHeader(line) THEN ParseHeader(line, st)
        ELSE IF LooksLikeCommand(line) THEN ParseCommand(line, st)
        ELSE [st EXCEPT !.cmds = <<>>] :
          line \in {Strip(raw)}})

\* One pass of the loop body over a line; st holds current_category, the
\* local commands dict and self.categories.
ParseLine(raw, st) ==
  Only({IF IsHeader(line) THEN ParseHeader(line, st)
        ELSE IF LooksLikeCommand(line) THEN ParseCommand(line, st)
        ELSE st :
          line \in {Strip(raw)}})

S_general == <<"g","e","n","e","r","a","l">>

EmptyDict == <<>>

\* the loop over the lines from the i-th on
RECURSIVE ParseLoop(_, _, _)
ParseLoop(lines, i, st) ==
  IF i > Len(lines) THEN st
  ELSE Only({ParseLoop(lines, i + 1, next) : next \in {ParseLine(lines[i], st)}})

\* parse_help_output(help_text) with self.categories = cats on entry: the
\* returned dict (also stored as self.commands) and self.categories after.
ParseHelpOutput(help_text, cats) ==
  Only({[commands |-> st.cmds, categories |-> st.cats] :
          st \in {Only({ParseLoop(lines, 1, st0) :
                          lines \in {SplitLines(help_text)},
                          st0 \in {[cat |-> S_general, cmds |-> EmptyDict,
                                    cats |-> cats]}})}})

(***************************************************************************)
(* PM3CommandParser.parse_module_help.                                     *)
(***************************************************************************)
\* the positions at which the dash delimiter matches with text left after it
DelimPositions(line) ==
  {b \in 1..Len(line) :
     \E d \in {DashDelimEnd(line, b)} : d # -1 /\ d < Len(line)}

\* re.match(rf'{module}\s+([\w\s]+?)\s+(?:--|-)\s+(.+)', line): the first
\* greedy \s+ ends at p (longest first), the lazy group ends at b (shortest
\* first), and the dash delimiter has to match at b with text left for (.+).
ModuleMatch(module, line) ==
  IF ~StartsWith(line, module)
  THEN [found |-> FALSE, subcmd |-> <<>>, desc |-> <<>>]
  ELSE Only({
         Only({IF ps = {} THEN [found |-> FALSE, subcmd |-> <<>>, desc |-> <<>>]
               ELSE Only({[found |-> TRUE, subcmd |-> Slice(line, p, b),
                           desc |-> Slice(line, DashDelimEnd(line, b), Len(line))] :
                            p \in {Max(ps)},
                            b \in {Min({x \in delims : x > Max(ps) /\
                                     \A k \in (Max(ps) + 1)..x :
                                        IsWord(line[k]) \/ IsSpace(line[k])})}}) :
                 ps \in {{p \in (Len(module) + 1)..SpaceRunEnd(line, Len(module)) :
                            \E b \in delims :
                               /\ b > p
                               /\ \A k \in (p + 1)..b :
                                     IsWord(line[k]) \/ IsSpace(line[k])}}}) :
           delims \in {DelimPositions(line)}})

\* the loop of parse_module_help over the lines from the i-th on: the list
\* of commands, in line order
RECURSIVE ModuleLoop(_, _, _, _)
ModuleLoop(module, lines, i, found) ==
  IF i > Len(lines) THEN found
  ELSE Only({ModuleLoop(module, lines, i + 1, next) :
               next \in {Only({IF mt.found
                               THEN Append(found,
                                      PM3Command(module \o <<" ">> \o Strip(mt.subcmd),
                                                 module, Strip(mt.desc)))
                               ELSE found :
                                 mt \in {Only({ModuleMatch(module, line) :
                                                 line \in {Strip(lines[i])}})}})}})

ParseModuleHelp(module, help_text) ==
  Only({ModuleLoop(module, lines, 1, <<>>) : lines \in {SplitLines(help_text)}})

(***************************************************************************)
(* The JSON cache: save_commands_cache and load_commands_cache.            *)
(***************************************************************************)
\* the dict literal with 'description' filled from cmd.usage
CommandToJsonUsageAsDescription(cmd) ==
  [name |-> cmd.name, category |-> cmd.category,
   description |-> cmd.usage, usage |-> cmd.usage,
   examples |-> cmd.examples, subcommands |-> cmd.subcommands]

\* the dict literal save_commands_cache writes for one command
CommandToJson(cmd) ==
  [name |-> cmd.name, category |-> cmd.category,
   description |-> cmd.description, usage |-> cmd.usage,
   examples |-> cmd.examples, subcommands |-> cmd.subcommands]

\* cache_data of save_commands_cache, as json.dump writes it
CacheData(cmds, cats) ==
  [commands |-> [n \in DOMAIN cmds |-> CommandToJson(cmds[n])],
   categories |-> cats]

\* dict.get(key, default) on a decoded JSON object
JsonGet(obj, key, default) == IF key \in DOMAIN obj THEN obj[key] ELSE default

\* the PM3Command load_commands_cache rebuilds from one decoded entry
CommandFromJson(data) ==
  [name |-> data["name"], category |-> data["category"],
   description |-> JsonGet(data, "description", <<>>),
   usage |-> JsonGet(data, "usage", <<>>),
   examples |-> JsonGet(data, "examples", <<>>),
   subcommands |-> JsonGet(data, "subcommands", <<>>)]

\* The file: absent, holding text json.load rejects, or holding what
\* json.dump wrote.
FileAbsent == [kind |-> "absent"]

FileMalformed == [kind |-> "malformed"]

FileJson(data) == [kind |-> "json", data |-> data]

\* save_commands_cache(filepath): the file afterwards
SaveCommandsCache(cmds, cats) == FileJson(CacheData(cmds, cats))

\* load_commands_cache(filepath): the return value and the catalog after.
\* A missing file returns before anything is assigned; json.load raises on
\* malformed text before self.commands is reset.
LoadCommandsCache(file, cmds, cats) ==
  IF file.kind = "absent"
  THEN [ret |-> FALSE, commands |-> cmds, categories |-> cats]
  ELSE IF file.kind = "malformed"
  THEN [ret |-> FALSE, commands |-> cmds, categories |-> cats]
  ELSE Only({[ret |-> TRUE,
              commands |-> [n \in DOMAIN entries |-> CommandFromJson(entries[n])],
              categories |-> JsonGet(file.data, "categories", EmptyDict)] :
               entries \in {JsonGet(file.data, "commands", EmptyDict)}})

(***************************************************************************)
(* PM3CommandParser.discover_all_commands.                                 *)
(***************************************************************************)
S_help == <<"h","e","l","p">>

S_hf == <<"h","f">>

S_lf == <<"l","f">>

S_hw == <<"h","w">>

S_data == <<"d","a","t","a">>

S_trace == <<"t","r","a","c","e">>

S_mem == <<"m","e","m">>

S_smart == <<"s","m","a","r","t">>

S_script == <<"s","c","r","i","p","t">>

\* modules = ['hf', 'lf', 'hw', 'data', 'trace', 'mem', 'smart', 'script']
Modules == <<S_hf, S_lf, S_hw, S_data, S_trace, S_mem, S_smart, S_script>>

\* f"{module} help"
ModuleQuery(module) == module \o <<" ">> \o S_help

\* for cmd in module_commands: all_commands[cmd.name] = cmd
RECURSIVE MergeCommands(_, _, _)
MergeCommands(all, cmds, i) ==
  IF i > Len(cmds) THEN all
  ELSE Only({MergeCommands(next, cmds, i + 1) :
               next \in {DictSet(all, cmds[i].name, cmds[i])}})

\* The loop over the modules with the try around the loop instead of inside
\* it: the first module that raises ends the pass.
RECURSIVE DiscoverModulesUntilFailure(_, _, _, _)
DiscoverModulesUntilFailure(i, output, raises, acc) ==
  IF i > Len(Modules) THEN acc
  ELSE IF Modules[i] \in raises
  THEN [all |-> acc.all, queries |-> Append(acc.queries, ModuleQuery(Modules[i]))]
  ELSE Only({DiscoverModulesUntilFailure(i + 1, output, raises, next) :
               next \in {Only({[all |-> MergeCommands(acc.all, cmds, 1),
                                queries |-> Append(acc.queries,
                                                   ModuleQuery(Modules[i]))] :
                                 cmds \in {ParseModuleHelp(Modules[i],
                                                           output[Modules[i]])}})}})

\* The loop over the modules from index i on. output[m] is the text the
\* device answers to the module's query and raises the set of queries that
\* raise; acc holds all_commands and the queries sent so far. The except
\* clause of the loop body only logs.
RECURSIVE DiscoverModules(_, _, _, _)
DiscoverModules(i, output, raises, acc) ==
  IF i > Len(Modules) THEN acc
  ELSE Only({DiscoverModules(i + 1, output, raises, next) :
               next \in {IF Modules[i] \in raises
                         THEN [all |-> acc.all,
                               queries |-> Append(acc.queries, ModuleQuery(Modules[i]))]
                         ELSE Only({[all |-> MergeCommands(acc.all, cmds, 1),
                                     queries |-> Append(acc.queries,
                                                        ModuleQuery(Modules[i]))] :
                                      cmds \in {ParseModuleHelp(Modules[i],
                                                                output[Modules[i]])}})}})

\* discover_all_commands(): the returned dict, the catalog afterwards and the
\* queries sent to the device. Without a device nothing is sent; when the
\* main query raises the outer except clause logs and the empty dict is
\* returned, self.commands being left as it was.
DiscoverAllCommands(device, help_output, output, raises, cmds, cats) ==
  IF device = "none"
  THEN [ret |-> EmptyDict, commands |-> cmds, categories |-> cats,
        queries |-> <<>>]
  ELSE IF S_help \in raises
  THEN [ret |-> EmptyDict, commands |-> cmds, categories |-> cats,
        queries |-> <<S_help>>]
  ELSE Only({Only({[ret |-> done.all, commands |-> done.all,
                     categories |-> main.categories, queries |-> done.queries] :
                      done \in {DiscoverModules(1, output, raises,
                                  [all |-> main.commands, queries |-> <<S_help>>])}}) :
               main \in {ParseHelpOutput(help_output, cats)}})

(***************************************************************************)
(* Inputs: help texts and the answers of a device.                         *)
(***************************************************************************)
(* PM3CommandParser.get_smart_suggestions.                                 *)
(***************************************************************************)
\* the characters in the order of their code points, which is the order
\* sorted() compares strings by
CodePoints ==
  <<"\t", "\n", " ", "-", "0", "1", "2", "3", "4", "5", "6", "7", "8", "9", ":">>
    \o UpperLetters \o <<"_">> \o LowerLetters

\* ord(c), up to the gaps between the characters of the model
Ord(c) == CHOOSE i \in DOMAIN CodePoints : CodePoints[i] = c

\* a < b on strings: at the first place where they differ, a has ended or
\* has the smaller character
StrLess(a, b) ==
  \E i \in 1..Len(b) :
    /\ i <= Len(a) + 1
    /\ \A j \in 1..(i - 1) : a[j] = b[j]
    /\ (i = Len(a) + 1 \/ Ord(a[i]) < Ord(b[i]))

\* sorted(names) for names that differ from each other
RECURSIVE Sorted(_)
Sorted(names) ==
  IF names = {} THEN <<>>
  ELSE Only({<<least>> \o Sorted(names \ {least}) :
               least \in {CHOOSE n \in names :
                            \A o \in names \ {n} : StrLess(n, o)}})

\* how many suggestions are returned at most
TopSuggestions == 10

\* s[:10], without the cut
WholeList(s) == s

\* s[:10]
Top(s) == SubSeq(s, 1, IF Len(s) < TopSuggestions THEN Len(s) ELSE TopSuggestions)

\* the names the first loop collects
PrefixMatches(partial, names) == {n \in names : StartsWith(Lower(n), partial)}

\* the second loop, testing the name as it is written
SubstringMatchesCaseSensitive(partial, names) ==
  {n \in names : Contains(n, partial)}

\* the names the second loop collects
SubstringMatches(partial, names) == {n \in names : Contains(Lower(n), partial)}

\* get_smart_suggestions(partial_command) on a parser with self.commands = cmds
GetSmartSuggestions(partial_command, cmds) ==
  Only({IF partial = <<>> THEN <<>>
        ELSE Only({IF prefix # {} THEN Top(Sorted(prefix))
                   ELSE Top(Sorted(SubstringMatches(partial, DOMAIN cmds))) :
                     prefix \in {PrefixMatches(partial, DOMAIN cmds)}}) :
          partial \in {Strip(Lower(partial_command))}})

(***************************************************************************)
\* the longest help text, in lines
MaxLines == 2

\* how many times parse_help_output runs on one parser
MaxParse == 2

\* how many module queries raise in one discovery pass
MaxFail == 1

\* the lines help texts are made of
Line ==
  [cmd_ax |-> <<"a"," ","-","-"," ","x">>,  \* "a -- x"
   cmd_ay |-> <<"a"," ","-","-"," ","y">>,  \* "a -- y"
   cmd_b_padded |-> <<" "," ","b"," "," ","-","-"," "," ","x"," ">>,  \* "  b  --  x "
   single_dash |-> <<"a","b"," ","-"," ","y">>,  \* "ab - y"
   header_hf |-> <<"H","f"," ","c","o","m","m","a","n","d","s",":">>,  \* "Hf commands:"
   cmd_with_keyword |-> <<"c"," ","-","-"," ","m","o","d","u","l","e",":"," ","x">>,  \* "c -- module: x"
   cmd_hf_x |-> <<"h","f"," ","x"," ","-","-"," ","y">>,  \* "hf x -- y"
   no_delim |-> <<"a","-","-","b">>,  \* "a--b"
   empty |-> <<>>,  \* ""
   single_before_double |-> <<"a"," ","-"," ","b"," ","-","-"," ","c">>,  \* "a - b -- c"
   digit_first |-> <<"1"," ","-"," ","x">>,  \* "1 - x"
   header_hyphen |->
     <<"H","i","-","F","i"," ","c","o","m","m","a","n","d","s",":">>]  \* "Hi-Fi commands:"

HelpLines == {Line[k] : k \in DOMAIN Line}

\* the help texts of at most MaxLines lines
HelpTexts ==
  {JoinLines(ls) : ls \in UNION {[1..n -> HelpLines] : n \in 0..MaxLines}}

\* the main help texts of the modelled devices
DeviceHelpTexts ==
  {JoinLines(<<Line.header_hf, Line.cmd_hf_x, Line.cmd_ax>>),
   JoinLines(<<Line.cmd_ax, Line.cmd_ay, Line.single_dash>>),
   <<>>}

\* what follows the module name in the lines of a module help text
ModuleLine ==
  [a |-> <<" ","a"," ","-","-"," ","x">>,  \* " a -- x"
   bc |-> <<" ","b"," ","c"," ","-"," ","y">>,  \* " b c - y"
   x |-> <<" ","x"," ","-","-"," ","w">>,  \* " x -- w"
   other |-> <<"q"," ","-","-"," ","z">>,  \* "q -- z"
   blank_sub |-> <<" "," "," ","-"," ","e">>]  \* "   - e"

\* What a device answers to "<module> help", in two variants.
ModuleHelpText(variant, module) ==
  IF variant = 1
  THEN JoinLines(<<module \o ModuleLine.a, module \o ModuleLine.bc>>)
  ELSE JoinLines(<<module \o ModuleLine.x, ModuleLine.other, module \o ModuleLine.blank_sub,
                   module \o ModuleLine.x>>)

ModuleOutputs ==
  [variant \in {1, 2} |->
     [module \in Range(Modules) |-> ModuleHelpText(variant, module)]]

\* the sets of queries that raise on a device: the main query alone, or
\* at most MaxFail module queries
FailSets ==
  {{S_help}} \cup {fs \in SUBSET Range(Modules) : Cardinality(fs) <= MaxFail}

\* how many commands named by a letter and "q" a catalog holds at most
MaxNames == 11

\* "<name> -- d"
CommandLine(name) == name \o <<" ","-","-"," ","d">>

\* command names that differ in case, in a space and in where "hf" stands
SuggestNames ==
  <<<<"H","f">>, <<"h","f"," ","x">>, <<"h","f","x">>, <<"x"," ","h","f">>,
    <<"a","Q">>>>

\* the help texts of the catalogs suggestions are asked of: the first k of
\* the lines of SuggestNames, then lines named "aq", "bq", ...
SuggestTexts ==
  {JoinLines([i \in 1..(k + n) |->
                CommandLine(IF i <= k THEN SuggestNames[i]
                            ELSE <<LowerLetters[i - k], "q">>)]) :
     k \in 0..Len(SuggestNames), n \in 0..MaxNames}

\* what is typed when suggestions are asked for
Partials ==
  {<<>>, <<" ">>, <<"q">>, <<"Q">>, <<" ","q"," ">>, <<"h","f">>,
   <<"h","f"," ">>, <<"h">>, <<"f">>, <<"z">>}

(***************************************************************************)
(* State.                                                                  *)
(***************************************************************************)
VARIABLES
  helpText,     \* the text parse_help_output is given; the device's main help
  modVariant,   \* which module help texts the device answers
  raising,      \* the queries on which the device's console raises
  pm3_device,   \* PM3CommandParser.pm3_device: "none" or "dev"
  commands,     \* PM3CommandParser.commands
  categories,   \* PM3CommandParser.categories
  cacheFile,    \* the file pm3_commands_cache.json
  lastOp,       \* the operation that ran last
  afterSave,    \* the last operation is a load that directly followed a save
  returned,     \* the dict parse_help_output or discover_all_commands returned
  loaded,       \* what load_commands_cache returned
  queries,      \* the console queries of the last discovery pass
  nParse,       \* how many times parse_help_output has run
  asked,        \* the argument of the last question put to the catalog
  answer        \* what the last question put to the catalog returned

\* the inputs, which no operation changes
inputs == <<helpText, modVariant, raising>>

\* the last question put to the catalog and its answer
qvars == <<asked, answer>>

pvars ==
  <<inputs, pm3_device, commands, categories, cacheFile, lastOp, afterSave,
    returned, loaded, queries, nParse, qvars>>

\* State of one device object (PM3Subprocess or PM3ProxSpace) and of the
\* processes its console method starts.
VARIABLES
  launcher,     \* how console reaches the client: "direct", "bash" or "batch"
  c_pc,         \* where console is: idle, build, launch, wait, after_kill, returned
  c_cmd,        \* the number of the invocation
  c_capture,    \* the capture argument
  c_ret,        \* what console returned: "none", "True" or "False"
  c_failure,    \* where the invocation failed: none, build, launch or timeout
  proc,         \* the process Popen started: none, running, exit0, exit1, killed
  client,       \* the proxmark3 client a wrapper shell starts: none, running, exit0, exit1
  tmp_files,    \* the temporary files of PM3ProxSpace.console that exist
  grabbed_output, \* self.grabbed_output: what it holds and from which invocation
  c_command,    \* the command argument
  received,     \* the argument list the client was started with, <<>> before
  stdout,       \* what the processes have written to the stdout pipe
  stderr        \* what the processes have written to the stderr pipe

\* the arguments and the output of the client of the invocation
pipes == <<stdout, stderr>>

cvars ==
  <<launcher, c_pc, c_cmd, c_capture, c_ret, c_failure, proc, client,
    tmp_files, grabbed_output, c_command, received, pipes>>

\* State of the application: the window, its timers and the threads.
VARIABLES
  method,       \* which communication methods are available: the flags
                \* PM3_PROXSPACE_AVAILABLE, PM3_AVAILABLE, PM3_SUBPROCESS_AVAILABLE
  threads,      \* the PM3ConnectionThread objects created so far, by number
  nThreads,     \* how many PM3ConnectionThread objects have been created
  pm3_thread,   \* CyberNinjaRFIDWindow.pm3_thread: a thread number, 0 for None
  gui_pc,       \* what the interface thread is inside of
  timers,       \* the pending QTimer.singleShot calls, in the order they were made
  events,       \* the signals of other threads queued for the interface thread
  inflight,     \* the console invocations that have started and not returned
  labels,       \* the device information labels and the output they were filled from
  emitted,      \* the last text execute_command emitted on the output signal
  ports,        \* the port list holds a device
  scanners,     \* how many DeviceScanner threads are running
  nScans,       \* how many scans have been started
  nUser,        \* how many commands and refreshes the user has asked for
  input_enabled, \* command_input.isEnabled()
  log           \* the commands accepted, run and reported and the messages
                \* of t55xx_read_blocks, in the order they came

\* what the handlers of commands keep of the window
command_ui == <<input_enabled, log>>

gvars ==
  <<method, threads, nThreads, pm3_thread, gui_pc, timers, events, inflight,
    labels, emitted, ports, scanners, nScans, nUser, command_ui>>

\* State of the main output console.
VARIABLES
  output_text,  \* the document of output_text: for each of its blocks, the
                \* number of lines of text the block holds
  nLogs,        \* how many times log_output has been called
  executed,     \* the last call of PM3ConnectionThread.execute_command: its
                \* arguments and what the device did, <<>> before the first
  signals       \* the signals that call emitted, in order

\* the last execute_command of a worker seen by itself
tvars == <<executed, signals>>

ovars == <<output_text, nLogs, tvars>>

vars == <<pvars, cvars, gvars, ovars>>

\* what the operations that build the catalog leave alone
notParser == <<cvars, gvars, qvars, ovars>>

\* what console leaves alone
notConsole == <<pvars, gvars, ovars>>

\* the parser state no thread of the application touches: the threads
\* have parsers of their own and share the cache file
notWindow ==
  <<inputs, pm3_device, commands, categories, lastOp, afterSave, returned,
    loaded, queries, nParse, qvars, cvars, ovars>>

\* self.grabbed_output = "" of a new device object
NoOutput == [kind |-> "empty", cmd |-> 0]

\* PM3Subprocess.__init__ / PM3ProxSpace.__init__: no invocation yet
DeviceInit ==
  /\ c_pc = "idle"
  /\ c_cmd = 0
  /\ c_capture = TRUE
  /\ c_ret = "none"
  /\ c_failure = "none"
  /\ proc = "none"
  /\ client = "none"
  /\ tmp_files = {}
  /\ grabbed_output = NoOutput
  /\ c_command = <<>>
  /\ received = <<>>
  /\ stdout = <<>>
  /\ stderr = <<>>

\* how many PM3ConnectionThread objects the window creates
MaxThreads == 2

\* how many commands and refreshes the user asks for
MaxUser == 1

\* how many scans are started
MaxScans == 1

ThreadIds == 1..MaxThreads

\* QTimer.singleShot(500, self.scan_devices)
ScanDelay == 500

\* QTimer.singleShot(500, self.refresh_device_info)
RefreshDelay == 500

\* QTimer.singleShot(10, lambda: self._do_execute_command(command))
ExecuteDelay == 10

\* QTimer.singleShot(1000, self.update_device_labels)
LabelsDelay == 1000

\* QTimer.singleShot(500, lambda: self.command_input.setEnabled(True))
EnableDelay == 500

\* how many commands the user asks for once connected
MaxCommands == 2

\* range(8) of t55xx_read_blocks
Blocks == 8

\* a pending single-shot timer
Timer(kind, delay, cmd) == [kind |-> kind, delay |-> delay, cmd |-> cmd]

\* grabbed_output of a device no console call has written: the application
\* model keeps of a text the command whose invocation wrote it
NoText == "none"

\* PM3ConnectionThread.__init__, and the slot of a thread not yet created
NewThread(pc) ==
  [pc |-> pc, pm3_device |-> "none", is_connected |-> FALSE, hw_ok |-> "none",
   outcome |-> "none", grabbed_output |-> NoText, commands |-> EmptyDict,
   categories |-> EmptyDict, did |-> <<>>, queries |-> <<>>]

\* The availability flags the imports at the head of CyberNinjaRFID.py set.
Available(proxspace, swig, subprocess) ==
  [PM3_PROXSPACE_AVAILABLE |-> proxspace, PM3_AVAILABLE |-> swig,
   PM3_SUBPROCESS_AVAILABLE |-> subprocess]

NoMethod == Available(FALSE, FALSE, FALSE)

\* the interface thread is in its event loop
GuiIdle == [at |-> "idle", handler |-> "none", t |-> 0, cmd |-> "none"]

\* CyberNinjaRFIDWindow.__init__ and init_ui
WindowInit ==
  /\ threads = [t \in ThreadIds |-> NewThread("unused")]
  /\ nThreads = 0
  /\ pm3_thread = 0
  /\ gui_pc = GuiIdle
  /\ timers = <<Timer("scan", ScanDelay, "none")>>
  /\ events = <<>>
  /\ inflight = {}
  /\ labels = [kind |-> "initial", src |-> "none"]
  /\ emitted = [cmd |-> "none", src |-> "none"]
  /\ ports = FALSE
  /\ scanners = 0
  /\ nScans = 0
  /\ nUser = 0
  /\ input_enabled = TRUE
  /\ log = <<>>

\* output_text = QTextEdit(): the document of a new console has no text
OutputInit ==
  /\ output_text = <<>>
  /\ nLogs = 0
  /\ executed = <<>>
  /\ signals = <<>>

\* PM3CommandParser.__init__ and no cache file
ParserInit ==
  /\ pm3_device = "none"
  /\ commands = EmptyDict
  /\ categories = EmptyDict
  /\ cacheFile = FileAbsent
  /\ lastOp = "init"
  /\ afterSave = FALSE
  /\ returned = EmptyDict
  /\ loaded = FALSE
  /\ queries = <<>>
  /\ nParse = 0
  /\ asked = <<>>
  /\ answer = <<>>

(***************************************************************************)
(* The operations of the parser.                                           *)
(***************************************************************************)
\* parse_help_output(helpText)
ParseHelp ==
  /\ nParse < MaxParse
  /\ \E r \in {ParseHelpOutput(helpText, categories)} :
     /\ commands' = r.commands
     /\ categories' = r.categories
     /\ returned' = r.commands
  /\ nParse' = nParse + 1
  /\ lastOp' = "parse"
  /\ afterSave' = FALSE
  /\ UNCHANGED <<inputs, pm3_device, cacheFile, loaded, queries>>
  /\ UNCHANGED notParser

\* self.command_parser.pm3_device = self.pm3_device
AttachDevice ==
  /\ pm3_device = "none"
  /\ pm3_device' = "dev"
  /\ lastOp' = "attach"
  /\ afterSave' = FALSE
  /\ UNCHANGED <<inputs, commands, categories, cacheFile, returned, loaded,
                 queries, nParse>>
  /\ UNCHANGED notParser

\* discover_all_commands()
Discover ==
  /\ nParse < MaxParse
  /\ \E r \in {DiscoverAllCommands(pm3_device, helpText, ModuleOutputs[modVariant],
                                    raising, commands, categories)} :
        /\ commands' = r.commands
        /\ categories' = r.categories
        /\ returned' = r.ret
        /\ queries' = r.queries
        /\ nParse' = IF Len(r.queries) > 1 THEN nParse + 1 ELSE nParse
  /\ lastOp' = "discover"
  /\ afterSave' = FALSE
  /\ UNCHANGED <<inputs, pm3_device, cacheFile, loaded>>
  /\ UNCHANGED notParser

\* save_commands_cache(cache_file)
Save ==
  /\ cacheFile' = SaveCommandsCache(commands, categories)
  /\ lastOp' = "save"
  /\ afterSave' = FALSE
  /\ UNCHANGED <<inputs, pm3_device, commands, categories, returned, loaded,
                 queries, nParse>>
  /\ UNCHANGED notParser

\* load_commands_cache(cache_file)
Load ==
  /\ \E r \in {LoadCommandsCache(cacheFile, commands, categories)} :
     /\ commands' = r.commands
     /\ categories' = r.categories
     /\ loaded' = r.ret
  /\ lastOp' = "load"
  /\ afterSave' = (lastOp = "save")
  /\ UNCHANGED <<inputs, pm3_device, cacheFile, returned, queries, nParse>>
  /\ UNCHANGED notParser

\* The cache file is damaged outside the program (a cut-off write, an edit).
CorruptFile ==
  /\ cacheFile.kind # "malformed"
  /\ cacheFile' = FileMalformed
  /\ lastOp' = "corrupt"
  /\ afterSave' = FALSE
  /\ UNCHANGED <<inputs, pm3_device, commands, categories, returned, loaded,
                 queries, nParse>>
  /\ UNCHANGED notParser

\* get_smart_suggestions(partial_command)
Suggest ==
  /\ \E partial_command \in Partials :
       /\ asked' = partial_command
       /\ answer' = GetSmartSuggestions(partial_command, commands)
  /\ lastOp' = "suggest"
  /\ afterSave' = FALSE
  /\ UNCHANGED <<inputs, pm3_device, commands, categories, cacheFile, returned,
                 loaded, queries, nParse>>
  /\ UNCHANGED <<cvars, gvars, ovars>>

\* parse_help_output on any help text, as the module's own test calls it
ParseInit ==
  /\ method = NoMethod
  /\ WindowInit
  /\ OutputInit
  /\ launcher = "direct"
  /\ DeviceInit
  /\ helpText \in HelpTexts
  /\ modVariant = 1
  /\ raising = {}
  /\ ParserInit

ParseNext == ParseHelp

ParseSpec == ParseInit /\ [][ParseNext]_vars

\* suggestions from the catalog of a parsed help text, as the module's own
\* test asks for them
SuggestInit ==
  /\ method = NoMethod
  /\ WindowInit
  /\ OutputInit
  /\ launcher = "direct"
  /\ DeviceInit
  /\ helpText \in SuggestTexts
  /\ modVariant = 1
  /\ raising = {}
  /\ ParserInit

SuggestNext ==
  \/ ParseHelp
  \/ Suggest

SuggestSpec == SuggestInit /\ [][SuggestNext]_vars

\* discovery on devices some of whose queries raise
DiscoverInit ==
  /\ method = NoMethod
  /\ WindowInit
  /\ OutputInit
  /\ launcher = "direct"
  /\ DeviceInit
  /\ helpText \in DeviceHelpTexts
  /\ modVariant \in {1, 2}
  /\ raising \in FailSets
  /\ ParserInit

DiscoverNext ==
  \/ AttachDevice
  \/ ParseHelp
  \/ Discover

DiscoverSpec == DiscoverInit /\ [][DiscoverNext]_vars

\* a parser with a device and a cache file
CatalogInit ==
  /\ method = NoMethod
  /\ WindowInit
  /\ OutputInit
  /\ launcher = "direct"
  /\ DeviceInit
  /\ helpText \in DeviceHelpTexts
  /\ modVariant \in {1, 2}
  /\ raising \in {{}, {S_lf}}
  /\ ParserInit

CatalogNext ==
  \/ AttachDevice
  \/ ParseHelp
  \/ Discover
  \/ Save
  \/ Load
  \/ CorruptFile

CatalogSpec == CatalogInit /\ [][CatalogNext]_vars

(***************************************************************************)
(* PM3Subprocess.console and PM3ProxSpace.console.                         *)
(*                                                                         *)
(* PM3Subprocess starts the client itself ("direct") or, when pm3_client   *)
(* is the pm3 script, bash -c 'cd ... && ./proxmark3 ...' ("bash").        *)
(* PM3ProxSpace starts a temporary batch file that calls msys2_shell with  *)
(* a temporary bash script ("batch"). With a wrapper the process Popen     *)
(* holds is the shell; the client is the shell's child and inherits the    *)
(* stdout and stderr pipes. Popen.kill ends the one process Popen started, *)
(* and communicate() returns when that process has ended and every holder  *)
(* of the pipes has closed them.                                           *)
(***************************************************************************)
\* how many invocations one device object runs
MaxCalls == 2

Launchers == {"direct", "bash", "batch"}

\* a temporary file of the n-th invocation of PM3ProxSpace.console
TempFile(n, suffix) == [call |-> n, suffix |-> suffix]

\* the two temporary files of the n-th invocation of PM3ProxSpace.console
TempFiles(n) == {TempFile(n, "sh"), TempFile(n, "bat")}

\* The port the device object was made for.
Port == <<"C", "O", "M", "3">>

\* the commands console is called with: plain, with a semicolon, with
\* double quotes, with a dollar sign, with one double quote
ConsoleCommands ==
  {<<"h", "w", " ", "v">>, <<"a", ";", "b">>,
   <<"d", " ", "\"", "a", " ", "b", "\"">>, <<"x", "$", "y">>, <<"a", "\"", "b">>}

\* str(self.pm3_client) of a client that is started directly
ClientPath == <<"/", "p", "m", "3", "/", "p", "r", "o", "x", "m", "a",
                "r", "k", "3">>

\* the client as the bash command line names it
BashClient == <<".", "/", "p", "r", "o", "x", "m", "a", "r", "k", "3",
                "/", "c", "l", "i", "e", "n", "t", "/", "p", "r", "o",
                "x", "m", "a", "r", "k", "3">>

\* the client as the generated script names it
ScriptClient == <<".", "/", "p", "r", "o", "x", "m", "a", "r", "k",
                  "3", ".", "e", "x", "e">>

\* f'cd "{pm3_dir}" && ./proxmark3/client/proxmark3 -p {self.port} -c "{command}"'
BashCommandLine(port, command) ==
  <<"c", "d", " ", "\"", "/", "p", "m", "3", "\"", " ", "&", "&", " ">>
    \o BashClient \o <<" ", "-", "p", " ">> \o port \o <<" ", "-", "c", " ", "\"">> \o command \o <<"\"">>

\* f'./proxmark3.exe {self.port} -c "{command}"\n', the last line of the
\* generated script
ScriptCommandLine(port, command) ==
  ScriptClient \o <<" ">> \o port \o <<" ", "-", "c", " ", "\"">> \o command \o <<"\"">>

\* the end (0-based, exclusive) of the variable name that starts at i
VarNameEnd(s, i) ==
  Only({Min(stops) :
          stops \in {{j \in i..Len(s) : j = Len(s) \/ ~IsWord(s[j + 1])}}})

\* the shell closes the word it is reading
EndWord(st) ==
  IF st.open THEN [st EXCEPT !.words = Append(st.words, st.cur),
                             !.cur = <<>>, !.open = FALSE]
  ELSE st

\* the shell closes the command it is reading
EndCommand(st) ==
  Only({IF w.words = <<>> THEN w
        ELSE [w EXCEPT !.cmds = Append(w.cmds, w.words), !.words = <<>>] :
          w \in {EndWord(st)}})

\* How bash reads one character of a command line, at 0-based position
\* st.i. Outside double quotes whitespace ends a word, ";" and "&&" end a
\* command and a double quote opens a quoted part of the word; inside, a
\* double quote closes it. "$name" is replaced by the value of the variable,
\* which is unset and so empty. The lines of the model hold no backslash,
\* backquote or single quote.
ShellStep(line, st) ==
  Only({IF c = "$" /\ st.i + 1 < Len(line) /\ IsWord(line[st.i + 2])
        THEN [st EXCEPT !.i = VarNameEnd(line, st.i + 1)]
        ELSE IF st.quote
        THEN IF c = "\"" THEN [st EXCEPT !.quote = FALSE, !.i = st.i + 1]
             ELSE [st EXCEPT !.cur = Append(st.cur, c), !.i = st.i + 1]
        ELSE IF IsSpace(c) THEN [EndWord(st) EXCEPT !.i = st.i + 1]
        ELSE IF c = "\"" THEN [st EXCEPT !.quote = TRUE, !.open = TRUE, !.i = st.i + 1]
        ELSE IF c = ";" THEN [EndCommand(st) EXCEPT !.i = st.i + 1]
        ELSE IF c = "&" /\ st.i + 1 < Len(line) /\ line[st.i + 2] = "&"
        THEN [EndCommand(st) EXCEPT !.i = st.i + 2]
        ELSE [st EXCEPT !.cur = Append(st.cur, c), !.open = TRUE, !.i = st.i + 1] :
          c \in {line[st.i + 1]}})

\* The characters from position lo up to hi (0-based, exclusive) are read
\* in turn, but for those a "$name" or "&&" read before them has taken; the
\* range is halved to keep the nesting of the evaluation low.
RECURSIVE ShellScan(_, _, _, _)
ShellScan(line, lo, hi, st) ==
  IF hi <= lo THEN st
  ELSE IF hi = lo + 1 THEN IF st.i = lo THEN ShellStep(line, st) ELSE st
  ELSE Only({ShellScan(line, (lo + hi) \div 2, hi, left) :
               left \in {ShellScan(line, lo, (lo + hi) \div 2, st)}})

\* The commands bash reads from a command line, each a list of words; ok is
\* false when the line ends inside double quotes, which bash rejects
\* without running any of it.
ShellParse(line) ==
  Only({[ok |-> ~st.quote, cmds |-> EndCommand(st).cmds] :
          st \in {ShellScan(line, 0, Len(line),
                             [cmds |-> <<>>, words |-> <<>>, cur |-> <<>>,
                              open |-> FALSE, quote |-> FALSE, i |-> 0])}})

\* The argument list the client is started with by the shell that reads the
\* line, or <<>> when the shell does not start it.
ClientArgv(line, client_word) ==
  Only({IF ~parsed.ok THEN <<>>
        ELSE Only({IF hits = {} THEN <<>> ELSE parsed.cmds[Min(hits)] :
                     hits \in {{k \in DOMAIN parsed.cmds :
                                  parsed.cmds[k][1] = client_word}}}) :
          parsed \in {ShellParse(line)}})

\* the argument list the client gets from the launcher
LaunchedArgv(how, port, command) ==
  IF how = "direct" THEN <<ClientPath, <<"-","p">>, port, <<"-","c">>, command>>
  ELSE IF how = "bash" THEN ClientArgv(BashCommandLine(port, command), BashClient)
  ELSE ClientArgv(ScriptCommandLine(port, command), ScriptClient)

\* f"❌ Command failed: {str(e)}" assigned in the except clause
ErrorMessage(n) == [kind |-> "error", cmd |-> n]

\* what a process that ends may have written to its two pipes
ProcessOutputs ==
  {[out |-> <<"o">>, err |-> <<>>], [out |-> <<>>, err |-> <<"e">>],
   [out |-> <<"o">>, err |-> <<"e">>]}

\* full_output = errors + output
FullOutputErrorsFirst(n) == [kind |-> "output", cmd |-> n, text |-> stderr \o stdout]

\* full_output = output + errors of invocation n
FullOutput(n) == [kind |-> "output", cmd |-> n, text |-> stdout \o stderr]

\* process.returncode == 0
ReturnValue(p) == IF p = "exit0" THEN "True" ELSE "False"

\* both pipes have reached end-of-file and the process has ended
PipesClosed == proc # "running" /\ client # "running"

\* console(command, capture) is called
ConsoleCall ==
  /\ c_pc \in {"idle", "returned"}
  /\ c_cmd < MaxCalls
  /\ c_pc' = "build"
  /\ c_cmd' = c_cmd + 1
  /\ c_capture' \in BOOLEAN
  /\ c_ret' = "none"
  /\ c_failure' = "none"
  /\ proc' = "none"
  /\ client' = "none"
  /\ c_command' \in ConsoleCommands
  /\ received' = <<>>
  /\ stdout' = <<>>
  /\ stderr' = <<>>
  /\ UNCHANGED <<launcher, tmp_files, grabbed_output>>
  /\ UNCHANGED notConsole

\* cmd_args is built; PM3ProxSpace writes its two temporary files
BuildArgs ==
  /\ c_pc = "build"
  /\ c_pc' = "launch"
  /\ tmp_files' = IF launcher = "batch" THEN tmp_files \cup TempFiles(c_cmd)
                 ELSE tmp_files
  /\ UNCHANGED <<launcher, c_cmd, c_capture, c_ret, c_failure,
                 proc, client, grabbed_output, c_command, received, pipes>>
  /\ UNCHANGED notConsole

\* the except clause: the message is stored and False returned
ConsoleFails(where) ==
  /\ c_pc' = "returned"
  /\ c_ret' = "False"
  /\ c_failure' = where
  /\ grabbed_output' = ErrorMessage(c_cmd)

\* Making a temporary file raises: NamedTemporaryFile before it has made
\* the first; or write on the first (the command has a character the
\* encoding of the file lacks, the disk is full), or the making of the
\* second, with the first on disk (the unlink calls are in a later try
\* block).
BuildRaises ==
  /\ c_pc = "build"
  /\ launcher = "batch"
  /\ tmp_files' \in {tmp_files, tmp_files \cup {TempFile(c_cmd, "sh")},
                     tmp_files \cup TempFiles(c_cmd)}
  /\ ConsoleFails("build")
  /\ UNCHANGED <<launcher, c_cmd, c_capture, proc, client, c_command,
                 received, pipes>>
  /\ UNCHANGED notConsole

\* subprocess.Popen(...) starts the process
Popen ==
  /\ c_pc = "launch"
  /\ c_pc' = "wait"
  /\ proc' = "running"
  /\ received' = IF launcher = "direct"
                 THEN LaunchedArgv(launcher, Port, c_command) ELSE received
  /\ UNCHANGED <<launcher, c_cmd, c_capture, c_ret, c_failure,
                 client, tmp_files, grabbed_output, c_command, pipes>>
  /\ UNCHANGED notConsole

\* subprocess.Popen(...) raises (no such file, no permission); the finally
\* clause of PM3ProxSpace removes the temporary files
PopenRaises ==
  /\ c_pc = "launch"
  /\ tmp_files' = tmp_files \ TempFiles(c_cmd)
  /\ ConsoleFails("launch")
  /\ UNCHANGED <<launcher, c_cmd, c_capture, proc, client, c_command,
                 received, pipes>>
  /\ UNCHANGED notConsole

\* the wrapper shell reads its command line and starts the client
ShellStartsClient ==
  /\ launcher # "direct"
  /\ proc = "running"
  /\ client = "none"
  /\ \E argv \in {LaunchedArgv(launcher, Port, c_command)} :
       /\ argv # <<>>
       /\ received' = argv
  /\ client' = "running"
  /\ UNCHANGED <<launcher, c_pc, c_cmd, c_capture, c_ret, c_failure,
                 proc, tmp_files, grabbed_output, c_command, pipes>>
  /\ UNCHANGED notConsole

\* the client a wrapper shell started ends by itself
ClientExits ==
  /\ client = "running"
  /\ client' \in {"exit0", "exit1"}
  /\ \E written \in ProcessOutputs :
       stdout' = written.out /\ stderr' = written.err
  /\ UNCHANGED <<launcher, c_pc, c_cmd, c_capture, c_ret, c_failure,
                 proc, tmp_files, grabbed_output, c_command, received>>
  /\ UNCHANGED notConsole

\* The process Popen started ends by itself: the client with either exit
\* code; a shell with its client's exit code, or with an error before it
\* started the client.
ProcExits ==
  /\ proc = "running"
  /\ client # "running"
  /\ proc' \in IF launcher = "direct" THEN {"exit0", "exit1"}
               ELSE IF client = "none" THEN {"exit1"}
               ELSE {client}
  /\ IF launcher = "direct"
     THEN \E written \in ProcessOutputs :
            stdout' = written.out /\ stderr' = written.err
     ELSE IF client = "none" THEN stdout' = stdout /\ stderr' = <<"e">>
     ELSE UNCHANGED pipes
  /\ UNCHANGED <<launcher, c_pc, c_cmd, c_capture, c_ret, c_failure,
                 client, tmp_files, grabbed_output, c_command, received>>
  /\ UNCHANGED notConsole

\* What follows communicate: the finally clause of PM3ProxSpace removes the
\* temporary files, the output is stored if capture is set, and
\* process.returncode == 0 is returned.
ConsoleReturns ==
  /\ c_pc' = "returned"
  /\ tmp_files' = tmp_files \ TempFiles(c_cmd)
  /\ grabbed_output' = IF c_capture THEN FullOutput(c_cmd) ELSE grabbed_output
  /\ c_ret' = ReturnValue(proc)

\* process.communicate(timeout=60) returns
Communicate ==
  /\ c_pc = "wait"
  /\ PipesClosed
  /\ ConsoleReturns
  /\ UNCHANGED <<launcher, c_cmd, c_capture, c_failure, proc, client,
                 c_command, received, pipes>>
  /\ UNCHANGED notConsole

\* process.communicate(timeout=60) raises TimeoutExpired and the handler
\* calls process.kill(). While a pipe is open the process Popen started is
\* running, a shell waiting for its client.
TimeoutExpires ==
  /\ c_pc = "wait"
  /\ ~PipesClosed
  /\ c_pc' = "after_kill"
  /\ c_failure' = "timeout"
  /\ proc' = IF proc = "running" THEN "killed" ELSE proc
  /\ UNCHANGED <<launcher, c_cmd, c_capture, c_ret, client, tmp_files,
                 grabbed_output, c_command, received, pipes>>
  /\ UNCHANGED notConsole

\* process.communicate() after the kill returns
CommunicateAfterKill ==
  /\ c_pc = "after_kill"
  /\ PipesClosed
  /\ ConsoleReturns
  /\ UNCHANGED <<launcher, c_cmd, c_capture, c_failure, proc, client,
                 c_command, received, pipes>>
  /\ UNCHANGED notConsole

\* one device object of either class, and no parser
ConsoleInit ==
  /\ method = NoMethod
  /\ WindowInit
  /\ OutputInit
  /\ launcher \in Launchers
  /\ DeviceInit
  /\ helpText = <<>>
  /\ modVariant = 1
  /\ raising = {}
  /\ ParserInit

\* the steps of console itself
ConsoleStep ==
  \/ BuildArgs
  \/ BuildRaises
  \/ Popen
  \/ PopenRaises
  \/ Communicate
  \/ TimeoutExpires
  \/ CommunicateAfterKill

ConsoleNext ==
  \/ ConsoleCall
  \/ ConsoleStep
  \/ ShellStartsClient
  \/ ClientExits
  \/ ProcExits

ConsoleSpec == ConsoleInit /\ [][ConsoleNext]_vars

\* The thread that called console keeps running and the 60 seconds pass;
\* nothing makes a client end.
ConsoleFairSpec == ConsoleSpec /\ WF_vars(ConsoleStep)

(***************************************************************************)
(* The application: CyberNinjaRFIDWindow, PM3ConnectionThread and          *)
(* DeviceScanner.                                                          *)
(*                                                                         *)
(* A step of the interface thread is one slot or timer callback, cut where *)
(* it blocks in console and where it reads what another thread may write.  *)
(* A step of a worker is the part of run between two console calls. The    *)
(* compatibility layer is not among these sources: COMPAT_AVAILABLE is     *)
(* taken to be False, PARSER_AVAILABLE to be True. The nine console calls  *)
(* of one discovery pass are one stay in console.                          *)
(***************************************************************************)
\* the quick commands the user runs
UserCommands == {"hw status"}

\* a console invocation: the device of thread t, the command, and who runs it
Invocation(t, cmd, by) == [dev |-> t, cmd |-> cmd, by |-> by]

\* a signal emitted by another thread, queued for the interface thread
Signal(sig, t) == [sig |-> sig, t |-> t]

\* seq without its i-th element
RemoveAt(seq, i) == SubSeq(seq, 1, i - 1) \o SubSeq(seq, i + 1, Len(seq))

\* The i-th pending timer may be the next to fire: no timer set before it
\* with a delay as short or shorter is still pending.
CanFire(i) == \A j \in 1..(i - 1) : timers[j].delay > timers[i].delay

\* self.pm3_thread and self.pm3_thread.is_connected
WindowConnected == pm3_thread # 0 /\ threads[pm3_thread].is_connected

\* scan_devices(): a DeviceScanner is created and started
StartScanner ==
  /\ scanners' = scanners + 1
  /\ nScans' = nScans + 1

\* the Scan Devices button
ScanDevices ==
  /\ gui_pc = GuiIdle
  /\ nScans < MaxScans
  /\ StartScanner
  /\ UNCHANGED <<method, threads, nThreads, pm3_thread, gui_pc, timers, events,
                 inflight, labels, emitted, ports, nUser>>
  /\ UNCHANGED <<notWindow, cacheFile, command_ui>>

\* the start-up timer calls scan_devices
TimerScan ==
  /\ gui_pc = GuiIdle
  /\ \E i \in DOMAIN timers :
       /\ timers[i].kind = "scan"
       /\ CanFire(i)
       /\ timers' = RemoveAt(timers, i)
  /\ StartScanner
  /\ UNCHANGED <<method, threads, nThreads, pm3_thread, gui_pc, events,
                 inflight, labels, emitted, ports, nUser>>
  /\ UNCHANGED <<notWindow, cacheFile, command_ui>>

\* DeviceScanner.run: the ports found are emitted on devices_found
ScannerRun ==
  /\ scanners > 0
  /\ scanners' = scanners - 1
  /\ \E found \in {"found", "nothing"} :
       events' = Append(events, Signal("devices_" \o found, 0))
  /\ UNCHANGED <<method, threads, nThreads, pm3_thread, gui_pc, timers,
                 inflight, labels, emitted, ports, nScans, nUser>>
  /\ UNCHANGED <<notWindow, cacheFile, command_ui>>

\* on_devices_found
OnDevicesFound ==
  /\ gui_pc = GuiIdle
  /\ events # <<>>
  /\ Head(events).sig \in {"devices_found", "devices_nothing"}
  /\ ports' = (Head(events).sig = "devices_found")
  /\ events' = Tail(events)
  /\ UNCHANGED <<method, threads, nThreads, pm3_thread, gui_pc, timers,
                 inflight, labels, emitted, scanners, nScans, nUser>>
  /\ UNCHANGED <<notWindow, cacheFile, command_ui>>

\* toggle_connection, connected: disconnect_pm3 and PM3ConnectionThread.disconnect
DisconnectPm3 ==
  /\ gui_pc = GuiIdle
  /\ WindowConnected
  /\ threads' = IF threads[pm3_thread].pm3_device # "none"
                THEN [threads EXCEPT ![pm3_thread].pm3_device = "none",
                                     ![pm3_thread].is_connected = FALSE]
                ELSE threads
  /\ pm3_thread' = 0
  /\ UNCHANGED <<method, nThreads, gui_pc, timers, events, inflight, labels,
                 emitted, ports, scanners, nScans, nUser>>
  /\ UNCHANGED <<notWindow, cacheFile, command_ui>>

\* toggle_connection, not connected: connect_pm3 creates and starts a thread
ConnectPm3 ==
  /\ gui_pc = GuiIdle
  /\ ~WindowConnected
  /\ ports
  /\ nThreads < MaxThreads
  /\ nThreads' = nThreads + 1
  /\ threads' = [threads EXCEPT ![nThreads + 1] = NewThread("run")]
  /\ pm3_thread' = nThreads + 1
  /\ UNCHANGED <<method, gui_pc, timers, events, inflight, labels, emitted,
                 ports, scanners, nScans, nUser>>
  /\ UNCHANGED <<notWindow, cacheFile, command_ui>>

\* the device object run builds when SWIG bindings come before the wrapper
DeviceOfRunBindingsFirst(flags) ==
  IF flags.PM3_AVAILABLE THEN "pm3"
  ELSE IF flags.PM3_PROXSPACE_AVAILABLE THEN "PM3ProxSpace"
  ELSE IF flags.PM3_SUBPROCESS_AVAILABLE THEN "PM3Subprocess"
  ELSE "none"

\* create_pm3_connection(port): the SWIG object when import pm3 succeeds,
\* PM3Subprocess on ImportError
CreatePm3Connection(importable) ==
  IF importable THEN "pm3" ELSE "PM3Subprocess"

\* The class of the device object run builds, "none" when it emits error
\* instead. create_pm3_connection imports pm3 from the path the import at
\* the head of the file took it from, with the outcome that one had.
DeviceOfRun(flags) ==
  IF flags.PM3_PROXSPACE_AVAILABLE THEN "PM3ProxSpace"
  ELSE IF flags.PM3_AVAILABLE THEN "pm3"
  ELSE IF flags.PM3_SUBPROCESS_AVAILABLE
  THEN CreatePm3Connection(flags.PM3_AVAILABLE)
  ELSE "none"

\* the run of thread t ends with the error signal
RunFails(t) ==
  /\ threads' = [threads EXCEPT ![t].pc = "done", ![t].outcome = "error"]
  /\ events' = Append(events, Signal("error", t))

\* PM3ConnectionThread.run up to its first console call: the device object
\* is constructed, or the constructor raises, or no method is available.
RunStart(t) ==
  /\ threads[t].pc = "run"
  /\ \/ /\ DeviceOfRun(method) # "none"
        /\ threads' = [threads EXCEPT ![t].pc = "hw_version",
                                      ![t].pm3_device = DeviceOfRun(method)]
        /\ inflight' = inflight \cup {Invocation(t, "hw version", "worker")}
        /\ UNCHANGED events
     \/ /\ RunFails(t)
        /\ UNCHANGED inflight
  /\ UNCHANGED <<method, nThreads, pm3_thread, gui_pc, timers, labels, emitted,
                 ports, scanners, nScans, nUser>>
  /\ UNCHANGED <<notWindow, cacheFile, command_ui>>

\* console("hw version") returns to run, True or False, having stored the
\* output or an error message; its value is not looked at.
RunHwVersionReturns(t) ==
  /\ threads[t].pc = "hw_version"
  /\ \E ok \in {"True", "False"} :
       threads' = [threads EXCEPT ![t].pc = "load",
                                  ![t].hw_ok = ok,
                                  ![t].grabbed_output = "hw version"]
  /\ inflight' = inflight \ {Invocation(t, "hw version", "worker")}
  /\ UNCHANGED <<method, nThreads, pm3_thread, gui_pc, timers, events, labels,
                 emitted, ports, scanners, nScans, nUser>>
  /\ UNCHANGED <<notWindow, cacheFile, command_ui>>

\* The run of thread t ends with is_connected set and the connected signal;
\* did are the steps of the command parser the run took before, sent the
\* console queries of its discovery pass.
RunConnects(t, cmds, cats, out, did, sent) ==
  /\ threads' = [threads EXCEPT ![t].pc = "done",
                                ![t].is_connected = TRUE,
                                ![t].outcome = "connected",
                                ![t].commands = cmds,
                                ![t].categories = cats,
                                ![t].grabbed_output = out,
                                ![t].did = did \o <<"connected">>,
                                ![t].queries = sent]
  /\ events' = Append(events, Signal("connected", t))

\* run loads the command cache; on a miss it starts the discovery pass
RunLoadCache(t) ==
  /\ threads[t].pc = "load"
  /\ \E r \in {LoadCommandsCache(cacheFile, threads[t].commands,
                                 threads[t].categories)} :
       IF r.ret
       THEN /\ RunConnects(t, r.commands, r.categories, threads[t].grabbed_output,
                           <<"load True">>, <<>>)
            /\ UNCHANGED inflight
       ELSE /\ threads' = [threads EXCEPT ![t].pc = "discover",
                                          ![t].did = <<"load False">>]
            /\ inflight' = inflight \cup {Invocation(t, "help", "worker")}
            /\ UNCHANGED events
  /\ UNCHANGED <<method, nThreads, pm3_thread, gui_pc, timers, labels, emitted,
                 ports, scanners, nScans, nUser>>
  /\ UNCHANGED <<notWindow, cacheFile, command_ui>>

\* the discovery pass returns and run goes on without saving the cache
RunDiscoverReturnsWithoutSave(t) ==
  /\ threads[t].pc = "discover"
  /\ \E r \in {DiscoverAllCommands("dev", helpText, ModuleOutputs[modVariant],
                                   raising, threads[t].commands,
                                   threads[t].categories)} :
       RunConnects(t, r.commands, r.categories, "script help",
                   threads[t].did \o <<"discover">>, r.queries)
  /\ inflight' = inflight \ {Invocation(t, "help", "worker")}
  /\ UNCHANGED <<method, nThreads, pm3_thread, gui_pc, timers, labels, emitted,
                 ports, scanners, nScans, nUser>>
  /\ UNCHANGED <<notWindow, cacheFile, command_ui>>

\* the discovery pass returns and run saves the cache
RunDiscoverReturns(t) ==
  /\ threads[t].pc = "discover"
  /\ \E r \in {DiscoverAllCommands("dev", helpText, ModuleOutputs[modVariant],
                                   raising, threads[t].commands,
                                   threads[t].categories)} :
       /\ RunConnects(t, r.commands, r.categories, "script help",
                      threads[t].did \o <<"discover", "save">>, r.queries)
       /\ cacheFile' = SaveCommandsCache(r.commands, r.categories)
  /\ inflight' = inflight \ {Invocation(t, "help", "worker")}
  /\ UNCHANGED <<method, nThreads, pm3_thread, gui_pc, timers, labels, emitted,
                 ports, scanners, nScans, nUser>>
  /\ UNCHANGED <<notWindow, command_ui>>

\* on_connected
OnConnected ==
  /\ gui_pc = GuiIdle
  /\ events # <<>>
  /\ Head(events).sig = "connected"
  /\ events' = Tail(events)
  /\ timers' = Append(timers, Timer("refresh", RefreshDelay, "none"))
  /\ UNCHANGED <<method, threads, nThreads, pm3_thread, gui_pc, inflight,
                 labels, emitted, ports, scanners, nScans, nUser>>
  /\ UNCHANGED <<notWindow, cacheFile, command_ui>>

\* on_connection_error
OnConnectionError ==
  /\ gui_pc = GuiIdle
  /\ events # <<>>
  /\ Head(events).sig = "error"
  /\ events' = Tail(events)
  /\ UNCHANGED <<method, threads, nThreads, pm3_thread, gui_pc, timers,
                 inflight, labels, emitted, ports, scanners, nScans, nUser>>
  /\ UNCHANGED <<notWindow, cacheFile, command_ui>>

\* an entry of the log
Entry(what, cmd) == [what |-> what, cmd |-> cmd]

\* f"lf t55xx read --blk {block}"
BlockCommand(block) ==
  "lf t55xx read --blk " \o <<"0", "1", "2", "3", "4", "5", "6", "7", "8">>[block + 1]

\* execute_command of the window past its two checks: the input is
\* disabled, the command logged and handed to a timer
AcceptCommand(cmd, pending, logged) ==
  [timers |-> Append(pending, Timer("do_execute", ExecuteDelay, cmd)),
   log |-> Append(logged, Entry("accepted", cmd))]

\* quick_command: a quick-command button or a tool dialog sets the text of
\* the input and calls execute_command
QuickCommand(limit) ==
  /\ gui_pc = GuiIdle
  /\ WindowConnected
  /\ nUser < limit
  /\ nUser' = nUser + 1
  /\ \E cmd \in UserCommands :
       \E r \in {AcceptCommand(cmd, timers, log)} :
         timers' = r.timers /\ log' = r.log
  /\ input_enabled' = FALSE
  /\ UNCHANGED <<method, threads, nThreads, pm3_thread, gui_pc, events,
                 inflight, labels, emitted, ports, scanners, nScans>>
  /\ UNCHANGED <<notWindow, cacheFile>>

\* execute_command and quick_command of the window: the command is handed
\* to a timer
ExecuteCommand == QuickCommand(MaxUser)

\* a quick-command button of a connected window
QuickCommandClicked == QuickCommand(MaxCommands)

\* Return is pressed in the command input, which takes keys only while it
\* is enabled
ReturnPressed ==
  /\ input_enabled
  /\ QuickCommand(MaxCommands)

\* The loop of t55xx_read_blocks runs from i on: the text is set and
\* execute_command called for block i - 1, then the handler sleeps.
RECURSIVE ReadBlocksLoop(_, _)
ReadBlocksLoop(i, st) ==
  IF i > Blocks THEN st
  ELSE Only({ReadBlocksLoop(i + 1, next) :
               next \in {AcceptCommand(BlockCommand(i - 1), st.timers, st.log)}})

\* t55xx_read_blocks on a connected window: one handler, which returns to
\* the event loop only after its last line
T55xxReadBlocks ==
  /\ gui_pc = GuiIdle
  /\ WindowConnected
  /\ nUser < MaxCommands
  /\ nUser' = nUser + 1
  /\ \E r \in {ReadBlocksLoop(1, [timers |-> timers,
                                   log |-> Append(log, Entry("starting", "none"))])} :
       /\ timers' = r.timers
       /\ log' = Append(r.log, Entry("complete", "none"))
  /\ input_enabled' = FALSE
  /\ UNCHANGED <<method, threads, nThreads, pm3_thread, gui_pc, events,
                 inflight, labels, emitted, ports, scanners, nScans>>
  /\ UNCHANGED <<notWindow, cacheFile>>

\* PM3ConnectionThread.execute_command called by the interface thread, up
\* to its console call; without a device object it emits error and returns.
CallExecuteCommand(handler, cmd) ==
  IF threads[pm3_thread].pm3_device = "none"
  THEN /\ gui_pc' = [at |-> "after", handler |-> handler, t |-> pm3_thread,
                     cmd |-> cmd]
       /\ UNCHANGED inflight
  ELSE /\ gui_pc' = [at |-> "console", handler |-> handler, t |-> pm3_thread,
                     cmd |-> cmd]
       /\ inflight' = inflight \cup {Invocation(pm3_thread, cmd, "gui")}

\* the timer calls _do_execute_command(command); with pm3_thread None the
\* call raises in the callback, whose finally clause sets its timers
TimerDoExecute ==
  /\ gui_pc = GuiIdle
  /\ \E i \in DOMAIN timers :
       /\ timers[i].kind = "do_execute"
       /\ CanFire(i)
       /\ IF pm3_thread = 0
          THEN /\ timers' = Append(RemoveAt(timers, i),
                                   Timer("enable", EnableDelay, "none"))
               /\ UNCHANGED <<gui_pc, inflight, log>>
          ELSE /\ timers' = RemoveAt(timers, i)
               /\ CallExecuteCommand("execute", timers[i].cmd)
               /\ log' = IF threads[pm3_thread].pm3_device = "none" THEN log
                         ELSE Append(log, Entry("executed", timers[i].cmd))
  /\ UNCHANGED <<method, threads, nThreads, pm3_thread, events, labels, emitted,
                 ports, scanners, nScans, nUser, input_enabled>>
  /\ UNCHANGED <<notWindow, cacheFile>>

\* refresh_device_info up to the console call of execute_command
RefreshDeviceInfo ==
  IF WindowConnected
  THEN CallExecuteCommand("refresh", "hw version")
  ELSE UNCHANGED <<gui_pc, inflight>>

\* the timer on_connected set calls refresh_device_info
TimerRefresh ==
  /\ gui_pc = GuiIdle
  /\ \E i \in DOMAIN timers :
       /\ timers[i].kind = "refresh"
       /\ CanFire(i)
       /\ timers' = RemoveAt(timers, i)
  /\ RefreshDeviceInfo
  /\ UNCHANGED <<method, threads, nThreads, pm3_thread, events, labels, emitted,
                 ports, scanners, nScans, nUser>>
  /\ UNCHANGED <<notWindow, cacheFile, command_ui>>

\* the Refresh Device Info button
RefreshClicked ==
  /\ gui_pc = GuiIdle
  /\ WindowConnected
  /\ nUser < MaxUser
  /\ nUser' = nUser + 1
  /\ RefreshDeviceInfo
  /\ UNCHANGED <<method, threads, nThreads, pm3_thread, timers, events, labels,
                 emitted, ports, scanners, nScans>>
  /\ UNCHANGED <<notWindow, cacheFile, command_ui>>

\* console returns to execute_command on the interface thread, having
\* stored the output (capture is True) or an error message
GuiConsoleReturns ==
  /\ gui_pc.at = "console"
  /\ threads' = [threads EXCEPT ![gui_pc.t].grabbed_output = gui_pc.cmd]
  /\ inflight' = inflight \ {Invocation(gui_pc.t, gui_pc.cmd, "gui")}
  /\ gui_pc' = [gui_pc EXCEPT !.at = "emit"]
  /\ UNCHANGED <<method, nThreads, pm3_thread, timers, events, labels, emitted,
                 ports, scanners, nScans, nUser>>
  /\ UNCHANGED <<notWindow, cacheFile, command_ui>>

\* execute_command reads grabbed_output and emits it on the output signal
GuiEmitOutput ==
  /\ gui_pc.at = "emit"
  /\ emitted' = [cmd |-> gui_pc.cmd,
                 src |-> threads[gui_pc.t].grabbed_output]
  /\ gui_pc' = [gui_pc EXCEPT !.at = "after"]
  /\ log' = IF gui_pc.handler = "execute"
            THEN Append(log, Entry("reported", gui_pc.cmd)) ELSE log
  /\ UNCHANGED <<method, threads, nThreads, pm3_thread, timers, events,
                 inflight, labels, ports, scanners, nScans, nUser, input_enabled>>
  /\ UNCHANGED <<notWindow, cacheFile>>

\* execute_command has returned to its caller: refresh_device_info sets the
\* timer for update_device_labels; _do_execute_command appends the command
\* to command_history and sets the timer that enables the input again
GuiHandlerEnds ==
  /\ gui_pc.at = "after"
  /\ timers' = IF gui_pc.handler = "refresh"
               THEN Append(timers, Timer("update_labels", LabelsDelay, "none"))
               ELSE Append(timers, Timer("enable", EnableDelay, "none"))
  /\ log' = IF gui_pc.handler = "execute"
            THEN Append(log, Entry("history", gui_pc.cmd)) ELSE log
  /\ gui_pc' = GuiIdle
  /\ UNCHANGED <<method, threads, nThreads, pm3_thread, events, inflight,
                 labels, emitted, ports, scanners, nScans, nUser, input_enabled>>
  /\ UNCHANGED <<notWindow, cacheFile>>

\* update_device_labels(): what the labels show and from which output
UpdateDeviceLabels ==
  IF pm3_thread = 0 THEN [kind |-> "not_connected", src |-> "none"]
  ELSE IF threads[pm3_thread].pm3_device = "none"
  THEN [kind |-> "failed", src |-> "none"]
  ELSE IF threads[pm3_thread].grabbed_output = NoText
  THEN [kind |-> "loading", src |-> "none"]
  ELSE [kind |-> "filled", src |-> threads[pm3_thread].grabbed_output]

\* the timer refresh_device_info set calls update_device_labels
TimerUpdateLabels ==
  /\ gui_pc = GuiIdle
  /\ \E i \in DOMAIN timers :
       /\ timers[i].kind = "update_labels"
       /\ CanFire(i)
       /\ timers' = RemoveAt(timers, i)
  /\ labels' = UpdateDeviceLabels
  /\ UNCHANGED <<method, threads, nThreads, pm3_thread, gui_pc, events,
                 inflight, emitted, ports, scanners, nScans, nUser>>
  /\ UNCHANGED <<notWindow, cacheFile, command_ui>>

\* the timer _do_execute_command set enables the command input
TimerEnableInput ==
  /\ gui_pc = GuiIdle
  /\ \E i \in DOMAIN timers :
       /\ timers[i].kind = "enable"
       /\ CanFire(i)
       /\ timers' = RemoveAt(timers, i)
  /\ input_enabled' = TRUE
  /\ UNCHANGED <<method, threads, nThreads, pm3_thread, gui_pc, events,
                 inflight, labels, emitted, ports, scanners, nScans, nUser, log>>
  /\ UNCHANGED <<notWindow, cacheFile>>

\* the application on a machine with one of the communication methods, the
\* device answering its help queries
GuiInit ==
  /\ method \in {Available(TRUE, TRUE, TRUE), Available(FALSE, FALSE, TRUE), NoMethod}
  /\ WindowInit
  /\ OutputInit
  /\ launcher = "direct"
  /\ DeviceInit
  /\ helpText = JoinLines(<<Line.header_hf, Line.cmd_hf_x, Line.cmd_ax>>)
  /\ modVariant = 1
  /\ raising = {}
  /\ ParserInit

GuiNext ==
  \/ ScanDevices
  \/ TimerScan
  \/ ScannerRun
  \/ OnDevicesFound
  \/ DisconnectPm3
  \/ ConnectPm3
  \/ \E t \in ThreadIds : RunStart(t)
  \/ \E t \in ThreadIds : RunHwVersionReturns(t)
  \/ \E t \in ThreadIds : RunLoadCache(t)
  \/ \E t \in ThreadIds : RunDiscoverReturns(t)
  \/ OnConnected
  \/ OnConnectionError
  \/ ExecuteCommand
  \/ TimerDoExecute
  \/ TimerRefresh
  \/ RefreshClicked
  \/ GuiConsoleReturns
  \/ GuiEmitOutput
  \/ GuiHandlerEnds
  \/ TimerUpdateLabels
  \/ TimerEnableInput

GuiSpec == GuiInit /\ [][GuiNext]_vars

\* The window as GuiSpec leaves it once the first thread has connected
\* after a discovery pass and the device information has been refreshed:
\* no timer is pending and the interface thread is in its event loop.
CommandInit ==
  /\ method = Available(FALSE, FALSE, TRUE)
  /\ launcher = "direct"
  /\ DeviceInit
  /\ helpText = JoinLines(<<Line.header_hf, Line.cmd_hf_x, Line.cmd_ax>>)
  /\ modVariant = 1
  /\ raising = {}
  /\ pm3_device = "none"
  /\ commands = EmptyDict
  /\ categories = EmptyDict
  /\ lastOp = "init"
  /\ afterSave = FALSE
  /\ returned = EmptyDict
  /\ loaded = FALSE
  /\ queries = <<>>
  /\ nParse = 0
  /\ asked = <<>>
  /\ answer = <<>>
  /\ \E r \in {DiscoverAllCommands("dev", helpText, ModuleOutputs[modVariant],
                                   raising, EmptyDict, EmptyDict)} :
       /\ cacheFile = SaveCommandsCache(r.commands, r.categories)
       /\ threads = [t \in ThreadIds |->
                       IF t = 1
                       THEN [pc |-> "done", pm3_device |-> "PM3Subprocess",
                             is_connected |-> TRUE, hw_ok |-> "True",
                             outcome |-> "connected",
                             grabbed_output |-> "hw version",
                             commands |-> r.commands,
                             categories |-> r.categories,
                             did |-> <<"load False", "discover", "save",
                                       "connected">>,
                             queries |-> r.queries]
                       ELSE NewThread("unused")]
  /\ nThreads = 1
  /\ pm3_thread = 1
  /\ gui_pc = GuiIdle
  /\ timers = <<>>
  /\ events = <<>>
  /\ inflight = {}
  /\ labels = [kind |-> "filled", src |-> "hw version"]
  /\ emitted = [cmd |-> "hw version", src |-> "hw version"]
  /\ ports = TRUE
  /\ scanners = 0
  /\ nScans = 1
  /\ nUser = 0
  /\ input_enabled = TRUE
  /\ log = <<>>
  /\ OutputInit

\* the commands of a connected window
CommandNext ==
  \/ QuickCommandClicked
  \/ ReturnPressed
  \/ T55xxReadBlocks
  \/ TimerDoExecute
  \/ GuiConsoleReturns
  \/ GuiEmitOutput
  \/ GuiHandlerEnds
  \/ TimerEnableInput

CommandSpec == CommandInit /\ [][CommandNext]_vars

(***************************************************************************)
(* parse_help_output and well-formed lines.                                *)
(***************************************************************************)
\* where a "--" stands between whitespace in a stripped line (the position
\* of its first dash)
DoubleDashes(t) ==
  {j \in 2..(Len(t) - 2) :
     IsSpace(t[j - 1]) /\ t[j] = "-" /\ t[j + 1] = "-" /\ IsSpace(t[j + 2])}

\* where a single "-" stands between whitespace in a stripped line
SingleDashes(t) ==
  {j \in 2..(Len(t) - 1) : IsSpace(t[j - 1]) /\ t[j] = "-" /\ IsSpace(t[j + 1])}

\* a well-formed 'name -- description' line
WellFormed(line) == DoubleDashes(Strip(line)) # {}

\* the name of a well-formed line: what stands before its first "--"
WfName(line) ==
  Only({Strip(SubSeq(t, 1, Min(DoubleDashes(t)) - 1)) : t \in {Strip(line)}})

\* the description of a well-formed line: what stands after its first "--"
WfDesc(line) ==
  Only({Strip(SubSeq(t, Min(DoubleDashes(t)) + 2, Len(t))) : t \in {Strip(line)}})

\* the returned mapping has one entry per well-formed line of the text,
\* keyed by the line's name and carrying its description
OneEntryPerWellFormedLine(text, result) ==
  \E lines \in {SplitLines(text)} :
    \E wf \in {{k \in DOMAIN lines : WellFormed(lines[k])}} :
      /\ Cardinality(DOMAIN result) = Cardinality(wf)
      /\ \A k \in wf :
           /\ WfName(lines[k]) \in DOMAIN result
           /\ result[WfName(lines[k])].name = WfName(lines[k])
           /\ result[WfName(lines[k])].description = WfDesc(lines[k])

\* A help text in which the well-formed lines have distinct names, hold no
\* header keyword and no single dash between whitespace before their "--",
\* and no other line holds a dash between whitespace.
PlainHelpText(text) ==
  \E lines \in {SplitLines(text)} :
    \A k \in DOMAIN lines :
      \E t \in {Strip(lines[k])} :
        IF WellFormed(lines[k])
        THEN /\ \A kw \in HeaderKeywords : ~Contains(Lower(t), kw)
             /\ \A j \in SingleDashes(t) : j > Min(DoubleDashes(t))
             /\ \A k2 \in DOMAIN lines :
                  k2 # k /\ WellFormed(lines[k2])
                     => WfName(lines[k2]) # WfName(lines[k])
        ELSE SingleDashes(t) = {}

\* C1 as stated: for every help text with N well-formed 'name --
\* description' lines, whatever its other lines, parse_help_output returns
\* exactly N entries, one per such line, keyed by its name and carrying its
\* description.
C1_EveryTextOneEntryPerLine ==
  lastOp = "parse" => OneEntryPerWellFormedLine(helpText, returned)

\* C1, amended: for every help text whose well-formed lines have pairwise
\* distinct names, hold none of the header keywords and no single dash
\* between whitespace before their "--", and whose other lines hold no dash
\* between whitespace, parse_help_output returns exactly N entries, one per
\* well-formed line, keyed by its name and carrying its description.
C1_PlainTextOneEntryPerLine ==
  lastOp = "parse" /\ PlainHelpText(helpText)
     => OneEntryPerWellFormedLine(helpText, returned)

\* a plain text with two well-formed lines has been parsed into two entries
C1_Witness ==
  /\ lastOp = "parse"
  /\ PlainHelpText(helpText)
  /\ Cardinality({k \in DOMAIN SplitLines(helpText) :
                    WellFormed(SplitLines(helpText)[k])}) = 2
  /\ Cardinality(DOMAIN returned) = 2

C3_MalformedLoadLeavesCatalogEmpty ==
  lastOp = "load" /\ cacheFile.kind = "malformed"
     => loaded = FALSE /\ commands = EmptyDict /\ categories = EmptyDict

(***************************************************************************)
(* The discovery pass.                                                     *)
(***************************************************************************)
\* 'help', then '<module> help' for each module in order
AllQueries == <<S_help>> \o [i \in DOMAIN Modules |-> ModuleQuery(Modules[i])]

\* the commands of the modules whose query does not raise, each list in
\* line order
AnsweredModuleCommands ==
  {ParseModuleHelp(mod, ModuleOutputs[modVariant][mod]) :
     mod \in Range(Modules) \ raising}

\* C10: a discovery pass on a connected device sends 'help' and then one
\* '<module> help' for each of the 8 modules, in order, also when a module's
\* query raises; the returned dict is the parser's commands and holds the
\* commands of the main help and of every module that did not raise, an
\* entry of the same name being the one merged last.
C10_DiscoveryToleratesModuleFailure ==
  lastOp = "discover" /\ pm3_device = "dev" /\ S_help \notin raising
     => \E main \in {ParseHelpOutput(helpText, EmptyDict).commands} :
        \E mods \in {AnsweredModuleCommands} :
          /\ Len(Modules) = 8
          /\ queries = AllQueries
          /\ returned = commands
          /\ DOMAIN returned =
               DOMAIN main \cup UNION {{cmds[i].name : i \in DOMAIN cmds} : cmds \in mods}
          /\ \A cmds \in mods : \A i \in DOMAIN cmds :
               (\A j \in DOMAIN cmds : j > i => cmds[j].name # cmds[i].name)
                  => returned[cmds[i].name] = cmds[i]
          /\ \A n \in DOMAIN main :
               (\A cmds \in mods : \A i \in DOMAIN cmds : cmds[i].name # n)
                  => returned[n] = main[n]

\* a pass in which the 'lf help' query raised has sent all nine queries and
\* returned main-help commands together with commands of the modules after lf
C10_Witness ==
  /\ lastOp = "discover"
  /\ pm3_device = "dev"
  /\ raising = {S_lf}
  /\ Len(queries) = 9
  /\ \E n \in DOMAIN returned : returned[n].category = S_script
  /\ \E n \in DOMAIN returned : returned[n].category = S_general
  /\ \A n \in DOMAIN returned : returned[n].category # S_lf

(***************************************************************************)
(* console: termination and failures.                                      *)
(***************************************************************************)
\* C8: every console invocation eventually returns, and when the process
\* had not exited as the 60 second wait expired it has been killed before
\* console returns and console returns False.
C8_ConsoleReturnsAndKillsOnTimeout ==
  /\ (c_pc = "build") ~> (c_pc = "returned")
  /\ [](c_pc = "returned" /\ c_failure = "timeout"
          => proc = "killed" /\ c_ret = "False")

\* C9: when building, launching or waiting on the process failed, console
\* has returned False and grabbed_output holds the error message of that
\* invocation, for either class and either value of capture.
C9_FailureLeavesErrorMessage ==
  c_pc = "returned" /\ c_failure # "none"
     => c_ret = "False" /\ grabbed_output = ErrorMessage(c_cmd)

(***************************************************************************)
(* The application: connection, workers and reported output.               *)
(***************************************************************************)
\* C4: a run that has ended has set is_connected and emitted connected when
\* the device object was constructed and 'hw version' succeeded, and has
\* emitted error with is_connected False in every other case.
C4_ConnectedOnlyAfterHwVersionSucceeded ==
  \A t \in ThreadIds :
    threads[t].pc = "done"
       => IF threads[t].hw_ok = "True"
          THEN threads[t].outcome = "connected"
          ELSE threads[t].outcome = "error" /\ ~threads[t].is_connected

\* C5: no two console invocations are in flight at the same time and at
\* most one connection worker is running.
C5_OneInvocationOneWorker ==
  /\ Cardinality(inflight) <= 1
  /\ Cardinality({t \in ThreadIds : threads[t].pc \notin {"unused", "done"}}) <= 1

\* C6: the text execute_command emits for a command is the output of that
\* command's invocation, and the device information labels are filled from
\* the output of the 'hw version' refresh_device_info ran.
C6_ReportedOutputIsOwnOutput ==
  /\ emitted.src = emitted.cmd
  /\ labels.kind = "filled" => labels.src = "hw version"

\* C7: every console invocation runs on a background worker, never on the
\* interface thread.
C7_ConsoleOnlyOnWorkers ==
  \A inv \in inflight : inv.by = "worker"

(***************************************************************************)
(* get_smart_suggestions.                                                  *)
(***************************************************************************)
\* the names of the catalog that contain q, whatever the case of the name
NamesContaining(q) == {n \in DOMAIN commands : Contains(Lower(n), q)}

\* the names of the catalog that start with q, whatever the case of the name
NamesStartingWith(q) == {n \in DOMAIN commands : StartsWith(Lower(n), q)}

\* C11 as stated: for a non-empty query that is a prefix of no command name,
\* get_smart_suggestions returns the command names that contain the query as
\* a substring, case-insensitively, and the empty list when none contains it.
C11_SubstringMatchesReturned ==
  lastOp = "suggest" /\ asked # <<>> /\ NamesStartingWith(Lower(asked)) = {}
     => Range(answer) = NamesContaining(Lower(asked))

\* C11, amended: for a query that, lower-cased and stripped of surrounding
\* whitespace, is non-empty and a prefix of no command name,
\* get_smart_suggestions returns names that contain it, case-insensitively:
\* all of them when they are at most 10, else the 10 least in lexicographic
\* order; it returns the empty list when no name contains it.
C11_SubstringMatchesOfStrippedQuery ==
  lastOp = "suggest"
     => \E q \in {Strip(Lower(asked))} :
          q # <<>> /\ NamesStartingWith(q) = {}
             => \E found \in {NamesContaining(q)} :
                  /\ Range(answer) \subseteq found
                  /\ Cardinality(Range(answer)) = Len(answer)
                  /\ Len(answer) = IF Cardinality(found) < 10
                                   THEN Cardinality(found) ELSE 10
                  /\ \A n \in found \ Range(answer) :
                       \A m \in Range(answer) : StrLess(m, n)

\* a query that is a prefix of no name was answered with a name that holds
\* it in another case
C11_Witness ==
  /\ lastOp = "suggest"
  /\ asked = <<"q">>
  /\ NamesStartingWith(<<"q">>) = {}
  /\ <<"a","Q">> \in Range(answer)

\* the list is in ascending order and without repetition
Ascending(list) ==
  \A i \in 1..(Len(list) - 1) : StrLess(list[i], list[i + 1])

\* C12 as stated: get_smart_suggestions returns at most 10 command names in
\* ascending lexicographic order, and whenever at least one command name
\* starts with the query (whatever its case) every returned name starts with
\* the query.
C12_PrefixMatchesOfQueryOnly ==
  lastOp = "suggest"
     => /\ Len(answer) <= 10
        /\ Ascending(answer)
        /\ NamesStartingWith(Lower(asked)) # {}
              => Range(answer) \subseteq NamesStartingWith(Lower(asked))

\* C12, amended: get_smart_suggestions returns at most 10 command names in
\* ascending lexicographic order, and whenever at least one command name
\* starts, case-insensitively, with the query stripped of surrounding
\* whitespace, every returned name starts with the stripped query.
C12_PrefixMatchesOfStrippedQueryOnly ==
  lastOp = "suggest"
     => /\ Len(answer) <= 10
        /\ Ascending(answer)
        /\ Range(answer) \subseteq DOMAIN commands
        /\ \E q \in {Strip(Lower(asked))} :
             NamesStartingWith(q) # {}
                => Range(answer) \subseteq NamesStartingWith(q)

\* three names that start with the query were returned and one that holds it
\* further on was not
C12_Witness ==
  /\ lastOp = "suggest"
  /\ asked = <<"h","f">>
  /\ Len(answer) = 3
  /\ <<"x"," ","h","f">> \in DOMAIN commands

(***************************************************************************)
(* parse_help_output and the lines it skips.                               *)
(***************************************************************************)
\* a line that is a category header or a 'name -- description' line
KeptAsStated(line) == IsHeader(Strip(line)) \/ WellFormed(line)

\* a line that holds a header keyword or a "--" or "-" between whitespace
KeptByDelimiter(line) ==
  \/ IsHeader(Strip(line))
  \/ \E t \in {Strip(line)} : DoubleDashes(t) \cup SingleDashes(t) # {}

\* the text without the lines that are neither headers nor 'name --
\* description' lines
WithoutOtherLines(text) == JoinLines(SelectSeq(SplitLines(text), KeptAsStated))

\* the text without the lines that hold neither a header keyword nor a
\* dash between whitespace
WithoutPlainLines(text) == JoinLines(SelectSeq(SplitLines(text), KeptByDelimiter))

\* C13 as stated: parse_help_output raises on no text, and the result for a
\* text equals the result for the text without its lines that are neither
\* category headers nor 'name -- description' lines.
C13_OtherLinesWithoutEffect ==
  lastOp = "parse"
     => returned = ParseHelpOutput(WithoutOtherLines(helpText), EmptyDict).commands

\* C13, amended: parse_help_output raises on no text, and the result for a
\* text equals the result for the text without its lines that hold none of
\* the header keywords and no "--" or "-" between whitespace.
C13_PlainLinesWithoutEffect ==
  lastOp = "parse"
     => returned = ParseHelpOutput(WithoutPlainLines(helpText), EmptyDict).commands

\* a text of a command line and a line without a delimiter has been parsed
C13_Witness ==
  /\ lastOp = "parse"
  /\ helpText = JoinLines(<<Line.cmd_ax, Line.no_delim>>)
  /\ DOMAIN returned = {<<"a">>}

(***************************************************************************)
(* parse_help_output and the category of a command.                        *)
(***************************************************************************)
\* where "commands:" starts in a stripped line (0-based), whatever its case
CommandsKeywordAt(t) ==
  {i \in 0..(Len(t) - 9) : Slice(Lower(t), i, i + 9) = S_commands \o <<":">>}

\* a '<X> commands:' header line
StatedHeader(line) ==
  \E t \in {Strip(line)} :
    CommandsKeywordAt(t) # {} /\ Strip(Slice(t, 0, Min(CommandsKeywordAt(t)))) # <<>>

\* the category the header line names: X, lower-cased
StatedCategory(line) ==
  Only({Lower(Strip(Slice(t, 0, Min(CommandsKeywordAt(t))))) : t \in {Strip(line)}})

\* where the first dash delimiter of a stripped line stands, if it has one
FirstDash(t) == Min(DoubleDashes(t) \cup SingleDashes(t))

\* the stripped text before the first dash delimiter of the line
StatedName(line) ==
  Only({Strip(SubSeq(t, 1, FirstDash(t) - 1)) : t \in {Strip(line)}})

\* the stripped text after the first dash delimiter of the line
StatedDescription(line) ==
  Only({Strip(SubSeq(t, IF FirstDash(t) \in DoubleDashes(t)
                        THEN FirstDash(t) + 2 ELSE FirstDash(t) + 1, Len(t))) :
          t \in {Strip(line)}})

\* the category that holds at line k: that of the nearest header line above
\* it, or "general"
CategoryAt(lines, k) ==
  Only({IF above = {} THEN S_general ELSE StatedCategory(lines[Max(above)]) :
          above \in {{h \in 1..(k - 1) : StatedHeader(lines[h])}}})

\* C14: every command parse_help_output returns carries the category named
\* by the nearest '<X> commands:' header line above its line, lower-cased,
\* or "general" when there is none, and its name and description are the
\* two sides of the first dash delimiter of its line.
C14_CategoryOfNearestHeader ==
  lastOp = "parse"
     => \E lines \in {SplitLines(helpText)} :
          \A name \in DOMAIN returned :
            \E k \in DOMAIN lines :
              /\ DoubleDashes(Strip(lines[k])) \cup SingleDashes(Strip(lines[k])) # {}
              /\ StatedName(lines[k]) = name
              /\ returned[name].name = name
              /\ returned[name].description = StatedDescription(lines[k])
              /\ returned[name].category = CategoryAt(lines, k)

(***************************************************************************)
(* console: the captured output and the arguments of the client.           *)
(***************************************************************************)
\* C15: after console(command, capture=True) has run the process to its end
\* (no step raised and the wait did not expire), grabbed_output is that
\* invocation's standard output followed by its standard error, and console
\* has returned True exactly when the exit code of the process is 0, for
\* both classes.
C15_CapturedOutputAndExitCode ==
  c_pc = "returned" /\ c_failure = "none" /\ c_capture
     => /\ grabbed_output.kind = "output"
        /\ grabbed_output.cmd = c_cmd
        /\ grabbed_output.text = stdout \o stderr
        /\ c_ret = "True" <=> proc = "exit0"

\* a ProxSpace invocation that wrote to both pipes and ended with exit code
\* 0 has returned
C15_Witness ==
  /\ c_pc = "returned"
  /\ c_failure = "none"
  /\ c_capture
  /\ launcher = "batch"
  /\ stdout = <<"o">>
  /\ stderr = <<"e">>
  /\ c_ret = "True"

\* the words after the client's own name in the argument list the client
\* is to get: the selected port and the command as passed to console
ExpectedArguments ==
  IF launcher = "batch" THEN <<Port, <<"-","c">>, c_command>>
  ELSE <<<<"-","p">>, Port, <<"-","c">>, c_command>>

\* C16: the client receives the selected port and the command string
\* exactly as they were passed to console, for every command string and on
\* every invocation path.
C16_ClientReceivesCommandAsPassed ==
  received # <<>> => SubSeq(received, 2, Len(received)) = ExpectedArguments

(***************************************************************************)
(* The commands of the window.                                             *)
(***************************************************************************)
\* the commands the step accepts for execution
Accepted ==
  {i \in (Len(log) + 1)..Len(log') : log'[i].what = "accepted"}

\* C17: from the moment execute_command accepts a command and disables the
\* command input until the input is enabled again, no other command is
\* accepted for execution, be it typed or issued by a quick-command button
\* or a tool dialog: a step accepts at most one command, and none while the
\* input is disabled.
C17_NoCommandAcceptedWhileInputDisabled ==
  [][Accepted # {} => input_enabled /\ Cardinality(Accepted) = 1]_vars

\* an entry for a command that was run
IsExecuted(e) == e.what = "executed"

\* the commands run between the i-th and the j-th entry of the log
ExecutedBetween(i, j) ==
  Only({[k \in DOMAIN run |-> run[k].cmd] :
          run \in {SelectSeq(SubSeq(log, i, j), IsExecuted)}})

\* C18: t55xx_read_blocks on a connected window runs the read command of
\* each of the blocks 0 to 7 once, in ascending order, and logs its
\* 'T55xx Block Dump Complete' message only after the read of block 7 has
\* run and its output has been reported.
C18_CompleteAfterLastBlockReported ==
  \A i \in DOMAIN log :
    log[i].what = "complete"
       => \E s \in {Max({j \in 1..i : log[j].what = "starting"})} :
            /\ ExecutedBetween(s, i) = [k \in 1..Blocks |-> BlockCommand(k - 1)]
            /\ \E j \in s..i : log[j] = Entry("reported", BlockCommand(Blocks - 1))

(***************************************************************************)
(* The command cache on connect.                                           *)
(***************************************************************************)
\* the steps of a run whose cache loaded, and of one whose cache did not
RunWithCache == <<"load True", "connected">>

RunWithoutCache == <<"load False", "discover", "save", "connected">>

\* C19: on connect the discovery pass runs exactly when load_commands_cache
\* returned False, each pass is followed by save_commands_cache to the same
\* file before the worker reports connected, and when the cache loaded no
\* help query is sent to the device.
C19_DiscoveryExactlyOnCacheMiss ==
  /\ [](\A t \in ThreadIds :
          threads[t].outcome = "connected"
             => \/ /\ threads[t].did = RunWithCache
                   /\ threads[t].queries = <<>>
                \/ /\ threads[t].did = RunWithoutCache
                   /\ Len(threads[t].queries) = 1 + Len(Modules)
                   /\ threads[t].queries[1] = S_help)
  /\ [][\A t \in ThreadIds :
          threads[t].pc = "discover" /\ threads'[t].pc = "done"
             => cacheFile' = SaveCommandsCache(threads'[t].commands,
                                               threads'[t].categories)]_vars

\* a first worker has connected after a discovery pass and a second one
\* from the cache the first saved
C19_Witness ==
  /\ threads[1].did = RunWithoutCache
  /\ threads[2].did = RunWithCache
  /\ threads[2].commands = threads[1].commands

(***************************************************************************)
(* PM3CommandParser.get_commands_by_category.                              *)
(***************************************************************************)
\* get_commands_by_category(category): the commands of the names listed
\* under the category that are in the catalog, in the order of the list
GetCommandsByCategory(category, cmds, cats) ==
  IF category \in DOMAIN cats
  THEN Only({[i \in DOMAIN listed |-> cmds[listed[i]]] :
               listed \in {SelectSeq(cats[category],
                                     LAMBDA cmd : cmd \in DOMAIN cmds)}})
  ELSE <<>>

\* the commands of the catalog whose category is the given one
CommandsOfCategory(category, cmds) ==
  {cmds[n] : n \in {m \in DOMAIN cmds : cmds[m].category = category}}

\* the categories a caller can ask for: those of the commands and those
\* the parser lists
KnownCategories ==
  {commands[n].category : n \in DOMAIN commands} \cup DOMAIN categories

\* C20: get_commands_by_category(X) returns every command of the catalog
\* whose category is X, however the catalog was built; after
\* discover_all_commands these are the commands discovered from the help of
\* module X.
C20_EveryCommandOfCategoryReturned ==
  \A X \in KnownCategories :
    Range(GetCommandsByCategory(X, commands, categories))
      = CommandsOfCategory(X, commands)

(***************************************************************************)
(* CyberNinjaRFIDWindow.log_output and the main output console.            *)
(***************************************************************************)
MAX_OUTPUT_LINES == 1000

\* the sum of the numbers of a sequence from the lo-th to the hi-th
RECURSIVE SumBetween(_, _, _)
SumBetween(seq, lo, hi) ==
  IF lo > hi THEN 0
  ELSE IF lo = hi THEN seq[lo]
  ELSE SumBetween(seq, lo, (lo + hi) \div 2)
         + SumBetween(seq, (lo + hi) \div 2 + 1, hi)

\* the sum of the first j numbers of a sequence
Sum(seq, j) == SumBetween(seq, 1, j)

\* the lines the cursor is moved down by before removeSelectedText
RemovedLines == 100

MaxLogs == 3

\* The texts given to log_output, by what log_output looks at: whether
\* text.strip() is empty, and the number of lines text.split('\n') gives,
\* each short enough to take one line of the console.
LogTexts ==
  {[blank |-> TRUE, lines |-> 1]}
    \cup {[blank |-> FALSE, lines |-> n] : n \in {1, 101, 1200}}

\* a document of n blocks of one line each
SingleLines(n) == [i \in 1..n |-> 1]

\* the documents of the console after the single-line messages of a
\* session, the first message having been a longer output or not
Documents ==
  {<<>>, SingleLines(999), SingleLines(MAX_OUTPUT_LINES),
   <<101>> \o SingleLines(998), <<101>> \o SingleLines(999)}

\* document().lineCount(): the layout of a QTextEdit keeps no line counts,
\* so this is the number of blocks, one for the empty document
LineCount(doc) == IF doc = <<>> THEN 1 ELSE Len(doc)

\* the lines of text the console shows
TextLines(doc) == Sum(doc, Len(doc))

\* output_text.append(colored_html): colorize_output joins the lines with
\* <br>, which append puts as line breaks into one new block
AppendHtml(doc, lines) == Append(doc, lines)

\* cursor.movePosition(Start); cursor.movePosition(Down, KeepAnchor, 100);
\* cursor.removeSelectedText(): the cursor goes down by lines of the layout
\* to the start of the 101st line shown; the blocks above it go, and of the
\* block it stands in the lines above it.
RemoveFirstLines(doc) ==
  Only({IF Sum(doc, k) = RemovedLines
        THEN SubSeq(doc, k + 1, Len(doc))
        ELSE <<doc[k + 1] - (RemovedLines - Sum(doc, k))>>
               \o SubSeq(doc, k + 2, Len(doc)) :
          k \in {Max({j \in 0..Min({RemovedLines, Len(doc)}) :
                        Sum(doc, j) <= RemovedLines})}})

\* the document after log_output(text)
LogOutputDocument(doc, text) ==
  IF text.blank THEN doc
  ELSE Only({IF LineCount(appended) > MAX_OUTPUT_LINES
             THEN RemoveFirstLines(appended)
             ELSE appended :
               appended \in {AppendHtml(doc, text.lines)}})

\* log_output(text)
LogOutput ==
  /\ nLogs < MaxLogs
  /\ \E text \in LogTexts :
       output_text' = LogOutputDocument(output_text, text)
  /\ nLogs' = nLogs + 1
  /\ UNCHANGED <<pvars, cvars, gvars, tvars>>

\* the Clear button of the console: output_text.clear()
ClearOutput ==
  /\ output_text # <<>>
  /\ output_text' = <<>>
  /\ UNCHANGED <<pvars, cvars, gvars, nLogs, tvars>>

\* a window whose console holds the messages of a session
LogInit ==
  /\ method = NoMethod
  /\ WindowInit
  /\ launcher = "direct"
  /\ DeviceInit
  /\ helpText = <<>>
  /\ modVariant = 1
  /\ raising = {}
  /\ ParserInit
  /\ output_text \in Documents
  /\ nLogs = 0
  /\ executed = <<>>
  /\ signals = <<>>

LogNext ==
  \/ LogOutput
  \/ ClearOutput

LogSpec == LogInit /\ [][LogNext]_vars

\* C21: once log_output has returned, the main output console holds at most
\* MAX_OUTPUT_LINES lines, whatever the number of lines of the logged texts.
C21_ConsoleHoldsAtMostMaxOutputLines ==
  nLogs > 0 => TextLines(output_text) <= MAX_OUTPUT_LINES

(***************************************************************************)
(* The communication method of PM3ConnectionThread.run.                    *)
(***************************************************************************)
\* the application on a machine with any of the communication methods
MethodInit ==
  /\ method \in {Available(p, s, b) : p \in BOOLEAN, s \in BOOLEAN, b \in BOOLEAN}
  /\ WindowInit
  /\ OutputInit
  /\ launcher = "direct"
  /\ DeviceInit
  /\ helpText = JoinLines(<<Line.header_hf, Line.cmd_hf_x, Line.cmd_ax>>)
  /\ modVariant = 1
  /\ raising = {}
  /\ ParserInit

\* connecting and disconnecting
MethodNext ==
  \/ ScanDevices
  \/ TimerScan
  \/ ScannerRun
  \/ OnDevicesFound
  \/ DisconnectPm3
  \/ ConnectPm3
  \/ \E t \in ThreadIds : RunStart(t)
  \/ \E t \in ThreadIds : RunHwVersionReturns(t)
  \/ \E t \in ThreadIds : RunLoadCache(t)
  \/ \E t \in ThreadIds : RunDiscoverReturns(t)
  \/ OnConnected
  \/ OnConnectionError

MethodSpec == MethodInit /\ [][MethodNext]_vars

\* the method first in the order ProxSpace wrapper, SWIG bindings,
\* subprocess fallback among those available
FirstAvailable(flags) ==
  CHOOSE d \in {"PM3ProxSpace", "pm3", "PM3Subprocess", "none"} :
    /\ d = "PM3ProxSpace" <=> flags.PM3_PROXSPACE_AVAILABLE
    /\ d = "pm3" <=> ~flags.PM3_PROXSPACE_AVAILABLE /\ flags.PM3_AVAILABLE
    /\ d = "none" <=> flags = NoMethod

\* the console invocations of thread t that have not returned
Invocations(t) == {i \in inflight : i.dev = t}

\* C22: run uses one communication method, the first available in the order
\* ProxSpace wrapper, SWIG bindings, subprocess fallback, and when none is
\* available it emits error without any device invocation.
C22_OneMethodByPriority ==
  \A t \in ThreadIds :
    /\ threads[t].pm3_device \in {"none", FirstAvailable(method)}
    /\ threads[t].pc \notin {"unused", "run", "done"}
         => threads[t].pm3_device = FirstAvailable(method)
    /\ threads[t].outcome = "connected" /\ threads[t].is_connected
         => threads[t].pm3_device = FirstAvailable(method)
    /\ method = NoMethod /\ threads[t].pc \notin {"unused", "run"}
         => /\ threads[t].outcome = "error"
            /\ threads[t].hw_ok = "none"
            /\ threads[t].did = <<>>
            /\ Invocations(t) = {}

\* a thread has connected through the SWIG bindings, the wrapper being
\* unavailable and the subprocess fallback available too
C22_Witness ==
  /\ method = Available(FALSE, TRUE, TRUE)
  /\ threads[1].outcome = "connected"
  /\ threads[1].pm3_device = "pm3"

(***************************************************************************)
(* PM3ConnectionThread.execute_command and the antenna readings.           *)
(***************************************************************************)
\* the tune commands of the quick buttons, with and without -n, and a
\* command that is no tune command
TuneCommands ==
  {<<"h","w"," ","t","u","n","e"," ","-","n"," ","1">>,
   <<"h","f"," ","t","u","n","e"," ","-","n"," ","1">>,
   <<"l","f"," ","t","u","n","e"," ","-","n"," ","1">>,
   <<"H","F"," ","T","u","n","e"," ","-","n"," ","1">>,
   <<"h","f"," ","t","u","n","e">>,
   <<"l","f"," ","t","u","n","e">>,
   <<"h","w"," ","t","u","n","e">>,
   <<"h","f"," ","s","e","a","r","c","h">>}

\* outputs of the device: readings at and around the two thresholds, two
\* readings, and outputs without a reading in mV
TuneOutputs ==
  {<<"[","=","]"," ","2","5","0","0","0"," ","m","V">>,
   <<"2","0","0","0","1"," ","m","V">>,
   <<"2","0","0","0","0"," ","m","V">>,
   <<"1","0","0","0","1","m","V">>,
   <<"1","0","0","0","0"," ","m","V">>,
   <<"9","0","0","0"," ","m","V","\n","1","5","0","0","0"," ","m","V">>,
   <<"3","3"," ","V">>,
   <<>>,
   <<"0"," ","m","V">>}

\* what the device object does with the command: there is none, its
\* console raises, or console returns with the output in grabbed_output
DeviceDoes == {"none", "raises", "returns"}

\* the regular expression class \s, as far as the texts here go
IsWhite(c) == c \in {" ", "\t", "\n", "\r"}

\* int(v) for a string of digits
RECURSIVE ToInt(_)
ToInt(v) ==
  IF v = <<>> THEN 0
  ELSE 10 * ToInt(SubSeq(v, 1, Len(v) - 1))
         + (CHOOSE d \in 0..9 : ToString(d) = v[Len(v)])

\* The end of the match of (\d+)\s*mV whose digits are output[i..j], or 0:
\* the white space after the digits is skipped and "mV" has to follow.
ReadingEnd(output, j) ==
  Only({IF e + 1 <= Len(output) /\ SubSeq(output, e, e + 1) = <<"m","V">>
        THEN e + 1 ELSE 0 :
          e \in {Min({k \in (j + 1)..(Len(output) + 1) :
                        k = Len(output) + 1 \/ ~IsWhite(output[k])})}})

\* re.findall(r'(\d+)\s*mV', output) from position i on: the matches are
\* the runs of digits that white space and "mV" follow, a run being taken
\* from where the scan meets it to its end.
RECURSIVE Voltages(_, _)
Voltages(output, i) ==
  IF i > Len(output) THEN <<>>
  ELSE IF output[i] \notin Digits THEN Voltages(output, i + 1)
  ELSE Only({IF ReadingEnd(output, j) # 0
             THEN <<SubSeq(output, i, j)>> \o Voltages(output, ReadingEnd(output, j) + 1)
             ELSE Voltages(output, j + 1) :
               j \in {Max({k \in i..Len(output) :
                             \A h \in i..k : output[h] \in Digits})}})

\* a signal of the worker thread
Emit(sig, text, mv) == [sig |-> sig, text |-> text, mv |-> mv]

\* the verdict with the thresholds taken as reached
AntennaVerdictFromThreshold(max_voltage) ==
  IF max_voltage >= 20000 THEN Emit("output", "ok", max_voltage)
  ELSE IF max_voltage >= 10000 THEN Emit("output", "moderate", max_voltage)
  ELSE Emit("output", "low", max_voltage)

\* the verdict on the highest reading
AntennaVerdict(max_voltage) ==
  IF max_voltage > 20000 THEN Emit("output", "ok", max_voltage)
  ELSE IF max_voltage > 10000 THEN Emit("output", "moderate", max_voltage)
  ELSE Emit("output", "low", max_voltage)

\* the antenna check of execute_command: the signals it emits
AntennaCheck(command, output) ==
  IF Contains(Lower(command), <<"t","u","n","e">>)
       /\ Contains(Lower(command), <<"-","n">>)
  THEN Only({IF voltages = <<>> THEN <<>>
             ELSE <<AntennaVerdict(Max({ToInt(voltages[k]) : k \in DOMAIN voltages}))>> :
               voltages \in {Voltages(output, 1)}})
  ELSE <<>>

\* the warning of execute_command for a tune command without -n
TuneWarning(command) ==
  IF Contains(Lower(command), <<"t","u","n","e">>)
       /\ ~Contains(Lower(command), <<"-","n">>)
  THEN <<Emit("output", "warning", 0)>>
  ELSE <<>>

\* execute_command(command, capture) of a thread without compatibility
\* layer: the signals it emits, in order
ExecuteCommandSignals(command, capture, does, output) ==
  IF does = "none" THEN <<Emit("error", "not connected", 0)>>
  ELSE IF does = "raises"
  THEN TuneWarning(command) \o <<Emit("error", "failed", 0)>>
  ELSE IF capture
  THEN TuneWarning(command) \o <<Emit("output", "grabbed_output", 0)>>
         \o AntennaCheck(command, output)
  ELSE TuneWarning(command) \o <<Emit("output", "executed", 0)>>

\* PM3ConnectionThread.execute_command(command, capture)
ThreadExecuteCommand ==
  /\ \E command \in TuneCommands, capture \in BOOLEAN, does \in DeviceDoes,
        output \in TuneOutputs :
       /\ executed' = [command |-> command, capture |-> capture,
                       does |-> does, output |-> output]
       /\ signals' = ExecuteCommandSignals(command, capture, does, output)
  /\ UNCHANGED <<pvars, cvars, gvars, output_text, nLogs>>

\* a worker thread and the commands given to it
TuneInit ==
  /\ method = Available(FALSE, FALSE, TRUE)
  /\ WindowInit
  /\ OutputInit
  /\ launcher = "direct"
  /\ DeviceInit
  /\ helpText = <<>>
  /\ modVariant = 1
  /\ raising = {}
  /\ ParserInit

TuneNext == ThreadExecuteCommand

TuneSpec == TuneInit /\ [][TuneNext]_vars

\* the words of a command: its parts between spaces
Words(command) ==
  {SubSeq(command, p[1], p[2]) :
     p \in {r \in (1..Len(command)) \X (1..Len(command)) :
              /\ r[1] <= r[2]
              /\ \A k \in r[1]..r[2] : command[k] # " "
              /\ r[1] = 1 \/ command[r[1] - 1] = " "
              /\ r[2] = Len(command) \/ command[r[2] + 1] = " "}}

\* the antenna verdicts among the signals
Verdicts(sigs) ==
  SelectSeq(sigs, LAMBDA e : e.text \in {"ok", "moderate", "low"})

\* the verdict the thresholds give for the highest reading
StatedVerdict(readings) ==
  Only({IF highest > 20000 THEN "ok"
        ELSE IF highest > 10000 /\ highest <= 20000 THEN "moderate"
        ELSE "low" :
          highest \in {Max({ToInt(readings[k]) : k \in DOMAIN readings})}})

C24_TemporaryFilesDeletedOnReturn ==
  launcher = "batch" /\ c_pc = "returned"
    => tmp_files \cap TempFiles(c_cmd) = {}

(***************************************************************************)
(* Accepted commands and their deferred execution.                         *)
(***************************************************************************)
\* command_history: the commands _do_execute_command has appended
command_history ==
  Only({[i \in DOMAIN appended |-> appended[i].cmd] :
          appended \in {SelectSeq(log, LAMBDA e : e.what = "history")}})

\* how many entries of a kind the log has
Logged(what) == Cardinality({i \in DOMAIN log : log[i].what = what})

\* the accepted commands whose timer has not fired yet
Deferred == Cardinality({i \in DOMAIN timers : timers[i].kind = "do_execute"})

\* every timer of the commands has fired and every handler has returned
Settled ==
  /\ gui_pc = GuiIdle
  /\ \A i \in DOMAIN timers : timers[i].kind \notin {"do_execute", "enable"}

\* C25: every command that passes the connected check of execute_command
\* is afterwards executed on the device exactly once and appended to
\* command_history, and the command input is enabled again, also when the
\* window is disconnected between acceptance and the deferred execution.
C25_AcceptedCommandExecutedOnce ==
  /\ Logged("accepted") = Deferred + Logged("executed")
  /\ gui_pc = GuiIdle => Len(command_history) = Logged("executed")
  /\ Settled => input_enabled

====
